---- MODULE Spec2Model ----
(***************************************************************************)
(* AI-CV-Evaluator: the in-memory job store of server.js, the evaluation   *)
(* pipeline processEvaluation, the two AI services it can be wired to (the *)
(* keyword heuristics of services/aiService.js and the OpenAI-backed       *)
(* ProductionAIService with its retry wrapper callOpenAI), and the part of *)
(* services/vectorDB.js the pipeline depends on.                           *)
(*                                                                         *)
(* One action is one macrotask of the Node.js event loop: an HTTP handler, *)
(* a timer firing, or an API promise settling, together with every         *)
(* microtask continuation it triggers (an await of an already settled      *)
(* promise never lets another handler in).                                 *)
(*                                                                         *)
(* Texts are abstracted to what the code reads from them: which of the     *)
(* code's keywords they contain (String.includes on the lower-cased text), *)
(* the largest "<n> years" figure matched by the experience regex, and     *)
(* their length.  Dates are a logical clock.  Reasoning strings and the    *)
(* rag_features lists of the result are not modelled.                      *)
(*                                                                         *)
(* Four specifications: Spec (FairSpec with fairness) is the server;       *)
(* ConcurrentSpec is the server with two stored uploads and two jobs in    *)
(* flight; ScoringSpec applies the scoring functions of both services to   *)
(* bounded inputs; RetrievalSpec loads the document store and applies the  *)
(* retrieval functions of services/vectorDB.js to bounded queries and      *)
(* texts, with strings as sequences of characters.                         *)
(***************************************************************************)
EXTENDS Integers, Sequences, FiniteSets, TLC

(***************************** bounds ***************************************)
\* uploads accepted by POST /upload in one run
MaxUploads == 1
\* jobs submitted in one run (heuristic service, or production in mock mode)
MaxJobs == 2
\* jobs submitted in one run when the production service talks to the API
MaxProdJobs == 1

(***************************** numbers **************************************)
\* A JavaScript number as far as the pipeline is concerned: an integer
\* (scores in percent, overall scores in tenths) or NaN.
Num(n) == [nan |-> FALSE, v |-> n]
NaN == [nan |-> TRUE, v |-> 0]

Min(a, b) == IF a <= b THEN a ELSE b
Max(a, b) == IF a >= b THEN a ELSE b

(***************************** texts ****************************************)
\* text.match(/(\d+)\s*(?:years?|yrs?)/gi) found nothing
NoYears == -1

Text(kw, years, len) == [kw |-> kw, years |-> years, len |-> len]

\* text.toLowerCase().includes(keyword)
Includes(text, keyword) == keyword \in text.kw

\* the CV and the project report of the test-suite
SeniorCvText ==
    Text({"node.js", "javascript", "python", "java", "express", "postgresql",
          "mongodb", "aws", "docker", "rest", "api", "microservices", "ai",
          "llm", "project", "built", "improved", "led", "degree",
          "computer science", "team"}, 5, 750)
FullProjectText ==
    Text({"express", "redis", "rest", "api", "ai", "llm", "project", "built",
          "led", "optimized", "documentation", "modular", "test", "readme",
          "instructions", "setup", "chain", "rag", "vector", "error", "retry",
          "timeout", "error handling", "resilience", "recovery", "embeddings"},
         NoYears, 1607)
\* an empty file
EmptyText == Text({}, NoYears, 0)
\* what extractFileContent makes up for a PDF or DOCX file
MockContent == Text({"ai"}, NoYears, 269)
\* "Unable to extract content from <name>: <message>"
ExtractErrorText == Text({}, NoYears, 93)

TextFile(content) == [mimetype |-> "text/plain", content |-> content]
PdfFile == [mimetype |-> "application/pdf", content |-> EmptyText]

\* the (cv, project) pairs POST /upload is given
UploadInputs ==
    { [cv |-> TextFile(SeniorCvText), project |-> TextFile(FullProjectText)],
      [cv |-> PdfFile, project |-> PdfFile] }

\* an extraction that answers a failed read with the empty string
extractFileContentEmptyOnError(fileInfo, readable) ==
    IF fileInfo.mimetype = "text/plain"
    THEN IF readable THEN fileInfo.content ELSE EmptyText
    ELSE MockContent

\* extractFileContent(fileInfo); readable: fs.readFileSync does not throw
extractFileContent(fileInfo, readable) ==
    IF fileInfo.mimetype = "text/plain"
    THEN IF readable THEN fileInfo.content ELSE ExtractErrorText
    ELSE MockContent

(***************************** vectorDB *************************************)
DocumentIds == {"job-requirements", "scoring-rubric"}

\* Keywords the scoring code looks up in the context built from the stored
\* documents, i.e. in the bullet lists extractBulletPoints returns for the
\* three highest ranked chunks of the job description.
\* ragContext.jobContext.skills.join(' ').toLowerCase()
RequiredSkillsText ==
    Text({"node.js", "express", "postgresql", "mongodb", "api", "javascript",
          "python", "ai", "llm", "vector", "embeddings", "aws", "azure",
          "docker", "kubernetes"}, NoYears, 480)
\* ragContext.jobContext.experience.join(' ').toLowerCase()
ExperienceReqText ==
    Text({"distributed", "microservices", "ai", "llm"}, NoYears, 253)
\* ragContext.technicalRequirements.join(' ').toLowerCase()
TechnicalReqText ==
    Text({"llm", "chaining", "rag", "vector", "retry", "failure"}, NoYears, 544)

\* getJobRequirements / getScoringRubric: the document must have been stored
getJobRequirements(docs) ==
    IF "job-requirements" \in docs
    THEN [ok |-> TRUE, error |-> ""]
    ELSE [ok |-> FALSE, error |-> "Job requirements not loaded"]
getScoringRubric(docs) ==
    IF "scoring-rubric" \in docs
    THEN [ok |-> TRUE, error |-> ""]
    ELSE [ok |-> FALSE, error |-> "Scoring rubric not loaded"]

\* getContextForCVEvaluation: job requirements first, then the rubric
getContextForCVEvaluation(docs) ==
    IF ~getJobRequirements(docs).ok THEN getJobRequirements(docs)
    ELSE getScoringRubric(docs)
\* getContextForProjectEvaluation: the rubric first, then job requirements
getContextForProjectEvaluation(docs) ==
    IF ~getScoringRubric(docs).ok THEN getScoringRubric(docs)
    ELSE getJobRequirements(docs)

(***************************** services/aiService.js ************************)
skillKeywords ==
    {"node.js", "nodejs", "javascript", "python", "java", "express", "react",
     "postgresql", "mysql", "mongodb", "redis", "aws", "docker", "kubernetes",
     "rest", "api", "graphql", "microservices", "ai", "llm", "machine learning"}

\* skill.toLowerCase().includes(keyword), for the skills extractSkills returns
SkillIncludes(skill, keyword) ==
    skill = keyword \/ (skill = "javascript" /\ keyword = "java")

extractSkills(text) ==
    LET foundSkills == {skill \in skillKeywords : Includes(text, skill)}
    IN  IF foundSkills # {} THEN foundSkills ELSE {"General programming"}

extractExperience(text) ==
    IF text.years # NoYears THEN text.years
    ELSE IF text.len > 200 THEN 3 ELSE IF text.len > 100 THEN 2 ELSE 1

extractProjects(text) ==
    IF \E keyword \in {"project", "built", "developed", "created", "implemented"} :
           Includes(text, keyword)
    THEN 1 ELSE 0

extractAchievements(text) ==
    {keyword \in {"improved", "increased", "reduced", "led", "managed", "optimized"} :
        Includes(text, keyword)}

extractCommunication(text) ==
    {keyword \in {"team", "collaboration", "communication", "presentation",
                  "documentation"} : Includes(text, keyword)}

\* AIService.extractCVInfo: the CVStructured record (projects is its length)
HeuristicExtractCVInfo(cvText) ==
    [src |-> "computed",
     hasSkills |-> TRUE,
     skills |-> extractSkills(cvText),
     experience_years |-> extractExperience(cvText),
     projects |-> extractProjects(cvText),
     achievements |-> extractAchievements(cvText),
     communication_indicators |-> extractCommunication(cvText)]

scoreExperience(years) ==
    IF years >= 5 THEN 5 ELSE IF years >= 3 THEN 4
    ELSE IF years >= 2 THEN 3 ELSE IF years >= 1 THEN 2 ELSE 1

scoreAchievements(achievements) ==
    IF Cardinality(achievements) >= 3 THEN 5
    ELSE IF Cardinality(achievements) >= 2 THEN 4
    ELSE IF Cardinality(achievements) >= 1 THEN 3 ELSE 2

scoreCulturalFit(communication) ==
    IF Cardinality(communication) >= 3 THEN 5
    ELSE IF Cardinality(communication) >= 2 THEN 4
    ELSE IF Cardinality(communication) >= 1 THEN 3 ELSE 2

\* number of skills matching one of `group` that the requirements name too
SkillMatch(skills, group, requiredSkills) ==
    Cardinality({skill \in skills :
        \E k \in group : SkillIncludes(skill, k) /\ Includes(requiredSkills, k)})

scoreTechnicalSkillsWithRAG(skills, requiredSkills) ==
    LET backendMatch == SkillMatch(skills,
            {"node.js", "nodejs", "express", "postgresql", "mongodb", "api",
             "javascript", "python"}, requiredSkills)
        aiMatch == SkillMatch(skills,
            {"ai", "llm", "machine learning", "vector", "embeddings"}, requiredSkills)
        cloudMatch == SkillMatch(skills,
            {"aws", "azure", "gcp", "docker", "kubernetes"}, requiredSkills)
    IN  IF backendMatch >= 3 /\ aiMatch >= 1 /\ cloudMatch >= 1 THEN 5
        ELSE IF backendMatch >= 2 /\ aiMatch >= 1 THEN 4
        ELSE IF backendMatch >= 2 THEN 3
        ELSE IF backendMatch >= 1 THEN 2 ELSE 1

\* Math.round of a non-negative number given in halves: halves round up
RoundHalves(h) == (h + 1) \div 2

\* baseScore is kept in halves (the AI bonus is 0.5)
scoreExperienceWithRAG(years, reqText) ==
    LET hasDistributed == Includes(reqText, "distributed") \/ Includes(reqText, "microservices")
        hasAI == Includes(reqText, "ai") \/ Includes(reqText, "llm")
        base0 == 2 * scoreExperience(years)
        base1 == IF years >= 2 /\ hasDistributed THEN Min(10, base0 + 2) ELSE base0
        base2 == IF years >= 1 /\ hasAI THEN Min(10, base1 + 1) ELSE base1
    IN  RoundHalves(base2)

\* the weighted average times 20, rounded: 20 * (0.4 t + 0.25 e + 0.2 a + 0.15 c)
\* is the integer 8 t + 5 e + 4 a + 3 c, which double arithmetic reaches for
\* all scores in 1..5
WeightedCVScore(t, e, a, c) == 8 * t + 5 * e + 4 * a + 3 * c

\* AIService.evaluateCVMatch, after the context was retrieved
HeuristicEvaluateCVMatch(cvStructured) ==
    LET technicalSkills == scoreTechnicalSkillsWithRAG(cvStructured.skills, RequiredSkillsText)
        experienceLevel == scoreExperienceWithRAG(cvStructured.experience_years, ExperienceReqText)
        achievements == scoreAchievements(cvStructured.achievements)
        culturalFit == scoreCulturalFit(cvStructured.communication_indicators)
    IN  [src |-> "computed",
         hasBreakdown |-> TRUE,
         breakdown |-> [technical_skills |-> technicalSkills,
                        experience_level |-> experienceLevel,
                        achievements |-> achievements,
                        cultural_fit |-> culturalFit],
         score |-> Num(WeightedCVScore(technicalSkills, experienceLevel,
                                       achievements, culturalFit))]

identifyStrengths(breakdown) == {k \in DOMAIN breakdown : breakdown[k] >= 4}
identifyGaps(breakdown) == {k \in DOMAIN breakdown : breakdown[k] <= 2}
identifyProjectImprovements(breakdown) == {k \in DOMAIN breakdown : breakdown[k] <= 3}

\* AIService.generateCVFeedback
HeuristicCVFeedback(matchResult) ==
    [src |-> "computed",
     strengths |-> identifyStrengths(matchResult.breakdown),
     improvements |-> identifyGaps(matchResult.breakdown)]

\* 1 plus one point per matched requirement, half a point for the last; in halves
scoreCorrectnessWithRAG(projectText, reqText) ==
    LET pt(kw, req, halves) ==
            IF Includes(projectText, kw) /\ Includes(reqText, req) THEN halves ELSE 0
        score == 2 + pt("llm", "llm", 2) + pt("chain", "chaining", 2)
                   + pt("rag", "rag", 2) + pt("vector", "vector", 2)
                   + pt("error", "error", 1)
    IN  Min(5, RoundHalves(score))

scoreResilienceWithRAG(projectText, reqText) ==
    LET pt(kw, req, halves) ==
            IF Includes(projectText, kw) /\ Includes(reqText, req) THEN halves ELSE 0
        either(a, b, halves) ==
            IF Includes(projectText, a) \/ Includes(projectText, b) THEN halves ELSE 0
        score == 2 + pt("retry", "retry", 2) + pt("timeout", "timeout", 2)
                   + pt("error handling", "failure", 2)
                   + either("resilience", "robust", 2)
                   + either("fallback", "recovery", 1)
    IN  Min(5, RoundHalves(score))

KeywordMatches(text, keywords) == Cardinality({k \in keywords : Includes(text, k)})

scoreCodeQuality(projectText) ==
    Min(5, Max(2, KeywordMatches(projectText,
        {"express", "node.js", "structured", "modular", "test"}) + 1))

scoreDocumentation(projectText) ==
    Min(5, Max(2, KeywordMatches(projectText,
        {"readme", "documentation", "instructions", "setup"}) + 2))

scoreCreativity(projectText) ==
    Min(5, Max(1, (projectText.len \div 100) + 1))

\* Breakdowns <<correctness, code_quality, resilience, documentation, creativity>>
\* whose weighted sum c*0.3 + q*0.25 + r*0.2 + d*0.15 + cr*0.1, times 10, is a
\* half in exact arithmetic but falls just below it in IEEE-754 doubles, so
\* that Math.round rounds it down.
DoubleRoundsDown == {
    <<1,2,1,1,2>>, <<1,2,1,1,4>>, <<1,2,4,3,3>>, <<1,2,4,3,4>>, <<1,2,5,5,3>>, <<1,2,5,5,4>>,
    <<1,3,5,2,1>>, <<1,3,5,2,3>>, <<1,3,5,2,4>>, <<1,3,5,2,5>>, <<1,4,4,3,3>>, <<1,4,4,3,4>>,
    <<1,4,5,1,4>>, <<1,4,5,1,5>>, <<1,5,1,2,3>>, <<1,5,1,2,4>>, <<1,5,5,2,1>>, <<1,5,5,2,3>>,
    <<1,5,5,2,4>>, <<2,2,1,5,3>>, <<2,2,1,5,4>>, <<2,2,5,3,3>>, <<2,2,5,3,4>>, <<2,3,2,2,3>>,
    <<2,3,2,2,4>>, <<2,4,1,5,3>>, <<2,4,1,5,4>>, <<2,5,2,2,3>>, <<2,5,2,2,4>>, <<3,1,1,4,4>>,
    <<3,1,1,4,5>>, <<3,1,2,2,5>>, <<3,1,3,2,3>>, <<3,1,3,2,4>>, <<3,1,4,4,3>>, <<3,1,4,4,4>>,
    <<3,1,5,2,4>>, <<3,1,5,2,5>>, <<3,2,1,1,2>>, <<3,2,1,3,3>>, <<3,2,1,3,4>>, <<3,2,1,5,1>>,
    <<3,2,1,5,3>>, <<3,2,1,5,4>>, <<3,2,1,5,5>>, <<3,2,2,1,4>>, <<3,2,2,1,5>>, <<3,2,2,5,3>>,
    <<3,2,2,5,4>>, <<3,2,5,1,3>>, <<3,2,5,1,4>>, <<3,2,5,3,1>>, <<3,2,5,3,3>>, <<3,2,5,3,4>>,
    <<3,3,1,4,4>>, <<3,3,1,4,5>>, <<3,3,2,2,1>>, <<3,3,2,2,3>>, <<3,3,2,2,4>>, <<3,3,2,2,5>>,
    <<3,3,3,2,3>>, <<3,3,3,2,4>>, <<3,4,1,3,3>>, <<3,4,1,3,4>>, <<3,4,2,1,4>>, <<3,4,2,1,5>>,
    <<3,4,5,3,3>>, <<3,4,5,3,4>>, <<3,5,2,2,1>>, <<3,5,2,2,3>>, <<3,5,2,2,4>>, <<4,1,3,2,1>>,
    <<4,1,3,2,3>>, <<4,1,3,2,4>>, <<4,1,3,2,5>>, <<4,1,4,2,3>>, <<4,1,4,2,4>>, <<4,2,1,1,3>>,
    <<4,2,1,1,4>>, <<4,2,1,3,1>>, <<4,2,1,3,3>>, <<4,2,1,3,4>>, <<4,2,1,3,5>>, <<4,2,2,3,3>>,
    <<4,2,2,3,4>>, <<4,2,3,1,4>>, <<4,2,3,1,5>>, <<4,3,1,2,4>>, <<4,3,1,2,5>>, <<4,3,3,2,1>>,
    <<4,3,3,2,3>>, <<4,3,3,2,4>>, <<4,5,5,4,1>>, <<5,1,1,4,3>>, <<5,1,1,4,4>>, <<5,1,2,2,4>>,
    <<5,1,2,2,5>>, <<5,1,4,2,1>>, <<5,1,4,2,3>>, <<5,1,4,2,4>>, <<5,2,2,1,3>>, <<5,2,2,1,4>>,
    <<5,2,2,3,1>>, <<5,2,2,3,3>>, <<5,2,2,3,4>>, <<5,3,4,2,3>>, <<5,3,4,2,4>>, <<5,4,2,3,3>>,
    <<5,4,2,3,4>>, <<5,4,4,5,1>>, <<5,5,4,2,3>>, <<5,5,4,4,1>>, <<5,5,4,4,3>>, <<5,5,4,4,5>>,
    <<5,5,5,2,1>>, <<5,5,5,4,1>>, <<5,5,5,4,3>>
    }

\* Math.round(overallScore * 10) / 10, in tenths
RoundedOverallScore(c, q, r, d, cr) ==
    LET twenty == 6 * c + 5 * q + 4 * r + 3 * d + 2 * cr
    IN  IF <<c, q, r, d, cr>> \in DoubleRoundsDown
        THEN RoundHalves(twenty) - 1
        ELSE RoundHalves(twenty)

\* AIService.evaluateProject, after the context was retrieved
HeuristicEvaluateProject(projectText) ==
    LET correctness == scoreCorrectnessWithRAG(projectText, TechnicalReqText)
        codeQuality == scoreCodeQuality(projectText)
        resilience == scoreResilienceWithRAG(projectText, TechnicalReqText)
        documentation == scoreDocumentation(projectText)
        creativity == scoreCreativity(projectText)
    IN  [src |-> "computed",
         hasBreakdown |-> TRUE,
         breakdown |-> [correctness |-> correctness,
                        code_quality |-> codeQuality,
                        resilience |-> resilience,
                        documentation |-> documentation,
                        creativity |-> creativity],
         overallScore |-> Num(RoundedOverallScore(correctness, codeQuality,
                                  resilience, documentation, creativity))]

\* AIService.generateProjectFeedback
HeuristicProjectFeedback(projectScore) ==
    [src |-> "computed",
     strengths |-> identifyStrengths(projectScore.breakdown),
     improvements |-> identifyProjectImprovements(projectScore.breakdown)]

\* the recommendation of AIService.generateOverallSummary; projScore in tenths
Recommendation(cvScore, projScore) ==
    IF cvScore >= 80 /\ projScore >= 40 THEN "highly recommended"
    ELSE IF cvScore >= 70 /\ projScore >= 35 THEN "recommended"
    ELSE IF cvScore >= 60 /\ projScore >= 30 THEN "needs discussion"
    ELSE "needs further development"

\* AIService.generateOverallSummary
HeuristicOverallSummary(cvMatchRate, projectScore) ==
    [src |-> "computed",
     recommendation |-> Recommendation(cvMatchRate.score.v, projectScore.overallScore.v)]

(***************************** ProductionAIService **************************)
\* this.retryConfig
maxRetries == 3
baseDelay == 1000
maxDelay == 10000

RECURSIVE Pow2(_)
Pow2(n) == IF n = 0 THEN 1 ELSE 2 * Pow2(n - 1)

\* a catch block that compares with <= : one attempt too many
ShouldRetryInclusive(attempt) == attempt <= maxRetries

\* callOpenAI's catch block: retry while attempt < maxRetries
ShouldRetry(attempt) == attempt < maxRetries

\* the delay slept before the next attempt
BackoffDelay(attempt) == Min(baseDelay * Pow2(attempt - 1), maxDelay)

Stages == <<"structure", "match", "cvfeedback", "project", "projfeedback", "summary">>
StageSet == {Stages[i] : i \in 1..Len(Stages)}
JsonStages == {"structure", "match", "project"}
StageIndex(stage) == CHOOSE i \in 1..Len(Stages) : Stages[i] = stage

\* What the model answers.  json: how JSON.parse(response.trim()) fares
\* ("invalid": it throws; "null", "primitive", "object": the kind of value it
\* returns); complete: the object has the fields the later stages read;
\* value: the number under score / overallScore (NaN when there is none).
Body(json, complete, value) == [json |-> json, complete |-> complete, value |-> value]
TextBody == Body("text", TRUE, NaN)

\* scores in percent and overall scores in tenths a model may answer with
ModelScores == {85, 150}
ModelOverallScores == {42, 60}

ModelBodies(stage) ==
    IF stage \notin JsonStages THEN {TextBody}
    ELSE {Body("invalid", FALSE, NaN), Body("null", FALSE, NaN),
          Body("primitive", FALSE, NaN), Body("object", FALSE, NaN)}
         \cup (CASE stage = "structure" -> {Body("object", TRUE, NaN)}
                 [] stage = "match" ->
                      {Body("object", TRUE, NaN)}
                      \cup {Body("object", TRUE, Num(s)) : s \in ModelScores}
                 [] stage = "project" ->
                      {Body("object", TRUE, Num(s)) : s \in ModelOverallScores})

\* How one chat.completions.create call settles: it rejects, it resolves
\* without content, or it resolves with content.
ApiOutcomes(stage) ==
    {[kind |-> "error", body |-> TextBody], [kind |-> "empty", body |-> TextBody]}
    \cup {[kind |-> "content", body |-> b] : b \in ModelBodies(stage)}

\* generateMockResponse(prompt): JSON for the structuring prompt only
generateMockResponse(stage) ==
    IF stage = "structure" THEN Body("object", TRUE, NaN)
    ELSE Body("invalid", FALSE, NaN)

extractSkillsBasic(text) ==
    {skill \in skillKeywords \ {"java", "kubernetes", "graphql", "machine learning"} :
        Includes(text, skill)}

extractExperienceBasic(text) == IF text.years # NoYears THEN text.years ELSE 2

fallbackExtractCVInfo(cvText) ==
    [src |-> "fallback",
     hasSkills |-> TRUE,
     skills |-> extractSkillsBasic(cvText),
     experience_years |-> extractExperienceBasic(cvText),
     projects |-> 1,
     achievements |-> {"Performance improvements", "Team collaboration"},
     communication_indicators |-> {"Team work", "Documentation"}]

fallbackEvaluateCV ==
    [src |-> "fallback",
     hasBreakdown |-> TRUE,
     breakdown |-> [technical_skills |-> 3, experience_level |-> 3,
                    achievements |-> 3, cultural_fit |-> 3],
     score |-> Num(70)]

fallbackCVFeedback(score) == [src |-> "fallback", score |-> score]

fallbackEvaluateProject ==
    [src |-> "fallback",
     hasBreakdown |-> TRUE,
     breakdown |-> [correctness |-> 3, code_quality |-> 3, resilience |-> 3,
                    documentation |-> 4, creativity |-> 3],
     overallScore |-> Num(32)]

fallbackProjectFeedback(score) == [src |-> "fallback", score |-> score]

fallbackOverallSummary(cvScore, projectScore) ==
    [src |-> "fallback",
     recommendation |-> "recommended for technical interview",
     cvScore |-> cvScore, projectScore |-> projectScore]

\* breakdowns a model answers with when its object is complete
ModelCVBreakdown ==
    [technical_skills |-> 4, experience_level |-> 4, achievements |-> 3, cultural_fit |-> 5]
ModelProjectBreakdown ==
    [correctness |-> 4, code_quality |-> 4, resilience |-> 3, documentation |-> 5,
     creativity |-> 2]

\* ProductionAIService.extractCVInfo given the wrapper's content: JSON.parse
\* throws on invalid text and parsed.skills throws on null (both caught:
\* fallback); any other value is returned as parsed.
ParseCVInfo(body, cvText) ==
    IF body.json \in {"invalid", "null"} THEN fallbackExtractCVInfo(cvText)
    ELSE [src |-> "model", hasSkills |-> body.json = "object" /\ body.complete]

\* evaluateCVMatch / evaluateProject given the wrapper's content: JSON.parse
\* throws on invalid text, and parsed.rag_context_used = true throws on null
\* and (class bodies being strict code) on a primitive; an object is returned
\* as parsed, whatever its fields.
ParseCVMatch(body) ==
    IF body.json # "object" THEN fallbackEvaluateCV
    ELSE IF body.complete
         THEN [src |-> "model", hasBreakdown |-> TRUE,
               breakdown |-> ModelCVBreakdown, score |-> body.value]
         ELSE [src |-> "model", hasBreakdown |-> FALSE, score |-> NaN]

ParseProject(body) ==
    IF body.json # "object" THEN fallbackEvaluateProject
    ELSE IF body.complete
         THEN [src |-> "model", hasBreakdown |-> TRUE,
               breakdown |-> ModelProjectBreakdown, overallScore |-> body.value]
         ELSE [src |-> "model", hasBreakdown |-> FALSE, overallScore |-> NaN]

\* the feedback and summary stages return response.trim()
ModelText == [src |-> "model"]

(***************************** server.js: state *****************************)
VARIABLES
    service,          \* the module behind require('./services/aiService')
    useMockResponses, \* ProductionAIService: no API key configured
    documents,        \* vectorDB.documents: the set of stored ids; in RetrievalSpec
                      \* the sequence of the documents with their chunks
    initialized,      \* vectorDB.initialized
    uploadedFiles,    \* Map uploadId -> upload
    evaluationJobs,   \* Map evaluationId -> job
    pipe,             \* evaluationId -> the frame of its processEvaluation call
    now,              \* the clock new Date() reads
    response,         \* the last response of POST /evaluate or GET /result/:id
    probe             \* the last call made to a function studied on its own

vars == <<service, useMockResponses, documents, initialized, uploadedFiles,
          evaluationJobs, pipe, now, response, probe>>

\* the variables of server.js
server == <<service, useMockResponses, documents, initialized, uploadedFiles,
            evaluationJobs, pipe, now, response>>

\* no function was called on its own
NoProbe == [fn |-> "none", done |-> FALSE]

\* a property that was never assigned
Undefined == [src |-> "undefined"]
NoDate == 0
NoError == "undefined"

\* how many jobs one run submits
JobCap ==
    IF service = "production" /\ ~useMockResponses THEN MaxProdJobs ELSE MaxJobs
\* the ids GET /result/:id is asked for
ResultIds == 1..Max(MaxJobs, MaxProdJobs)

\* The last finished callOpenAI invoke of a pipeline: the stage that made
\* it, how the last API call settled, and what the stage got ("content":
\* `returned`; "exhausted": the error thrown after the last attempt).
NoInvoke == [stage |-> "none", outcome |-> "none",
             reply |-> [kind |-> "none", body |-> TextBody], returned |-> TextBody]
Invoke(stage, outcome, reply, returned) ==
    [stage |-> stage, outcome |-> outcome, reply |-> reply, returned |-> returned]

\* the locals of processEvaluation and of the stage it awaits
\* (lastReply: how the API call settled whose error callOpenAI's catch block
\* is retrying, "none" outside a retry)
NewFrame(cvText, projectText) ==
    [stage |-> "extract", wait |-> "none", attempt |-> 0, calls |-> 0, delays |-> <<>>,
     cvText |-> cvText, projectText |-> projectText,
     cvStructured |-> Undefined, cvMatchRate |-> Undefined, cvFeedback |-> Undefined,
     projectScore |-> Undefined, projectFeedback |-> Undefined,
     overallSummary |-> Undefined,
     ran |-> <<>>, allExhausted |-> TRUE, lastInvoke |-> NoInvoke,
     lastReply |-> "none"]

StageValue(f, stage) ==
    CASE stage = "structure" -> f.cvStructured
      [] stage = "match" -> f.cvMatchRate
      [] stage = "cvfeedback" -> f.cvFeedback
      [] stage = "project" -> f.projectScore
      [] stage = "projfeedback" -> f.projectFeedback
      [] stage = "summary" -> f.overallSummary

SetStageValue(f, stage, v) ==
    CASE stage = "structure" -> [f EXCEPT !.cvStructured = v]
      [] stage = "match" -> [f EXCEPT !.cvMatchRate = v]
      [] stage = "cvfeedback" -> [f EXCEPT !.cvFeedback = v]
      [] stage = "project" -> [f EXCEPT !.projectScore = v]
      [] stage = "projfeedback" -> [f EXCEPT !.projectFeedback = v]
      [] stage = "summary" -> [f EXCEPT !.overallSummary = v]

(***************************** processEvaluation ****************************)
Ok == [ok |-> TRUE, error |-> ""]
Throw(message) == [ok |-> FALSE, error |-> message]

\* What a production stage does before it calls callOpenAI: retrieve the
\* context and build the prompt.  None of it is inside the stage's try block.
ProductionPrefix(stage, f, docs) ==
    CASE stage = "match" -> getContextForCVEvaluation(docs)
      [] stage = "cvfeedback" ->
            IF ~f.cvStructured.hasSkills
            THEN Throw("Cannot read properties of undefined (reading 'join')")
            ELSE IF ~f.cvMatchRate.hasBreakdown
            THEN Throw("Cannot convert undefined or null to object")
            ELSE Ok
      [] stage = "project" -> getContextForProjectEvaluation(docs)
      [] stage = "projfeedback" ->
            IF ~f.projectScore.hasBreakdown
            THEN Throw("Cannot read properties of undefined (reading 'correctness')")
            ELSE Ok
      [] OTHER -> Ok

\* What a heuristic stage does once its sleep is over.
HeuristicStage(stage, f, docs) ==
    CASE stage = "structure" -> [ok |-> TRUE, value |-> HeuristicExtractCVInfo(f.cvText)]
      [] stage = "match" ->
            IF getContextForCVEvaluation(docs).ok
            THEN [ok |-> TRUE, value |-> HeuristicEvaluateCVMatch(f.cvStructured)]
            ELSE getContextForCVEvaluation(docs)
      [] stage = "cvfeedback" -> [ok |-> TRUE, value |-> HeuristicCVFeedback(f.cvMatchRate)]
      [] stage = "project" ->
            IF getContextForProjectEvaluation(docs).ok
            THEN [ok |-> TRUE, value |-> HeuristicEvaluateProject(f.projectText)]
            ELSE getContextForProjectEvaluation(docs)
      [] stage = "projfeedback" ->
            [ok |-> TRUE, value |-> HeuristicProjectFeedback(f.projectScore)]
      [] stage = "summary" ->
            [ok |-> TRUE, value |-> HeuristicOverallSummary(f.cvMatchRate, f.projectScore)]

\* The value a production stage returns when callOpenAI returned `body`.
ParseResponse(stage, body, f) ==
    CASE stage = "structure" -> ParseCVInfo(body, f.cvText)
      [] stage = "match" -> ParseCVMatch(body)
      [] stage = "project" -> ParseProject(body)
      [] OTHER -> ModelText

\* The value a production stage's catch block returns.
Fallback(stage, f) ==
    CASE stage = "structure" -> fallbackExtractCVInfo(f.cvText)
      [] stage = "match" -> fallbackEvaluateCV
      [] stage = "cvfeedback" -> fallbackCVFeedback(f.cvMatchRate.score)
      [] stage = "project" -> fallbackEvaluateProject
      [] stage = "projfeedback" -> fallbackProjectFeedback(f.projectScore.overallScore)
      [] stage = "summary" ->
            fallbackOverallSummary(f.cvMatchRate.score, f.projectScore.overallScore)

\* the message processEvaluation stores before it calls a stage
StageMessage(stage, message) ==
    CASE stage = "structure" -> "Analyzing CV with AI and retrieving job context..."
      [] stage = "project" -> "Evaluating project deliverable with enhanced scoring..."
      [] stage = "summary" -> "Compiling final evaluation results..."
      [] OTHER -> message

\* cvMatchRate.score / 100
Rate(score) == [nan |-> score.nan, num |-> score.v, den |-> 100]

\* Step 5 of processEvaluation: the result object
CompileResult(evaluationId, uploadId, f, time) ==
    [src |-> "result",
     cv_match_rate |-> Rate(f.cvMatchRate.score),
     cv_feedback |-> f.cvFeedback,
     project_score |-> f.projectScore.overallScore,
     project_feedback |-> f.projectFeedback,
     overall_summary |-> f.overallSummary,
     detailed_scores |-> [cv_breakdown |-> f.cvMatchRate.breakdown,
                          project_breakdown |-> f.projectScore.breakdown],
     cv_structured |-> f.cvStructured,
     metadata |-> [evaluation_id |-> evaluationId, upload_id |-> uploadId],
     processed_at |-> time]

\* an end of the try block that stores no result
JobCompletedWithoutResult(job, f, time) ==
    [job EXCEPT !.status = "completed",
                !.completedAt = time,
                !.message = "AI evaluation completed successfully"]

\* an end of the try block that stamps failedAt as well
JobCompletedStampsFailedAt(job, f, time) ==
    [job EXCEPT !.status = "completed",
                !.result = CompileResult(job.id, job.uploadId, f, time),
                !.completedAt = time,
                !.failedAt = time,
                !.message = "AI evaluation completed successfully"]

\* the end of processEvaluation's try block
JobCompleted(job, f, time) ==
    [job EXCEPT !.status = "completed",
                !.result = CompileResult(job.id, job.uploadId, f, time),
                !.completedAt = time,
                !.message = "AI evaluation completed successfully"]

\* a catch block that puts the job back in the queue
JobFailedRequeued(job, message, time) ==
    [job EXCEPT !.status = "queued",
                !.error = message,
                !.message = "AI evaluation failed - please try again",
                !.failedAt = time]

\* a catch block that reports a fixed text instead of the error's message
JobFailedWithFixedError(job, message, time) ==
    [job EXCEPT !.status = "failed",
                !.error = "Evaluation failed",
                !.message = "AI evaluation failed - please try again",
                !.failedAt = time]

\* processEvaluation's catch block
JobFailed(job, message, time) ==
    [job EXCEPT !.status = "failed",
                !.error = message,
                !.message = "AI evaluation failed - please try again",
                !.failedAt = time]

Done(f) == [f EXCEPT !.stage = "done", !.wait = "none", !.attempt = 0,
                     !.lastReply = "none"]

\* processEvaluation calls `stage`: it stores the message, the stage runs up
\* to its first wait (a sleep of the heuristic service or of mock mode, the
\* first API call otherwise), or throws before it gets there.
EnterStage(stage, f, job, docs, time) ==
    LET job1 == [job EXCEPT !.message = StageMessage(stage, job.message)]
        f1 == [f EXCEPT !.stage = stage, !.ran = Append(f.ran, stage),
                        !.lastReply = "none"]
        prefix == IF service = "production" THEN ProductionPrefix(stage, f, docs) ELSE Ok
    IN  IF ~prefix.ok
        THEN [frame |-> Done(f1), job |-> JobFailed(job1, prefix.error, time)]
        ELSE IF service = "production" /\ ~useMockResponses
        THEN [frame |-> [f1 EXCEPT !.wait = "api", !.attempt = 1, !.calls = 1,
                                   !.delays = <<>>],
              job |-> job1]
        ELSE [frame |-> [f1 EXCEPT !.wait = "timer", !.attempt = 0, !.calls = 0,
                                   !.delays = <<>>],
              job |-> job1]

\* `stage` returned `value`: processEvaluation keeps it and goes on to the
\* next stage, or compiles the result after the last one.
StageReturned(stage, value, f, job, docs, time) ==
    LET f1 == SetStageValue(f, stage, value)
    IN  IF stage = "summary"
        THEN [frame |-> Done(f1), job |-> JobCompleted(job, f1, time)]
        ELSE EnterStage(Stages[StageIndex(stage) + 1], f1, job, docs, time)

\* a catch block that only logs the error
StageThrewOnlyLogged(message, f, job, time) == [frame |-> Done(f), job |-> job]

\* a catch block that calls the stage once more
StageThrewRunsStageAgain(message, f, job, time) ==
    [frame |-> [f EXCEPT !.ran = Append(f.ran, f.stage)], job |-> job]

\* `stage` threw `message`
StageThrew(message, f, job, time) ==
    [frame |-> Done(f), job |-> JobFailed(job, message, time)]

(***************************** actions **************************************)
\* What the model keeps of a response: the endpoint, the status code, the
\* id it is about, the status it reports and the names of the body's fields.
Sent(op, code, id, status, fields) ==
    [op |-> op, code |-> code, id |-> id, status |-> status, fields |-> fields]
NoResponse == Sent("none", 0, 0, "none", {})

Init ==
    /\ service \in {"heuristic", "production"}
    /\ useMockResponses \in BOOLEAN
    /\ service = "heuristic" => ~useMockResponses
    /\ documents = {}
    /\ initialized = FALSE
    /\ uploadedFiles = <<>>
    /\ evaluationJobs = <<>>
    /\ pipe = <<>>
    /\ now = 0
    /\ response = NoResponse
    /\ probe = NoProbe

\* app.listen's callback: vectorDB.initialize() stores both documents
Initialize ==
    /\ ~initialized
    /\ documents' = documents \cup DocumentIds
    /\ initialized' = TRUE
    /\ UNCHANGED <<probe, service, useMockResponses, uploadedFiles, evaluationJobs, pipe,
                   now, response>>

\* POST /upload with both files
Upload ==
    /\ Len(uploadedFiles) < MaxUploads
    /\ \E files \in UploadInputs :
          uploadedFiles' = Append(uploadedFiles,
              [id |-> Len(uploadedFiles) + 1, cv |-> files.cv,
               project |-> files.project, uploadedAt |-> now + 1])
    /\ now' = now + 1
    /\ UNCHANGED <<probe, service, useMockResponses, documents, initialized, evaluationJobs,
                   pipe, response>>

\* a validation that answers 400 and stores a job for the uploadId all the same
EvaluateInvalidStoresJob ==
    /\ Len(evaluationJobs) < JobCap
    /\ \E uploadId \in 0..(MaxUploads + 1) :
          /\ uploadId = 0 \/ uploadId \notin DOMAIN uploadedFiles
          /\ evaluationJobs' = Append(evaluationJobs,
                 [id |-> Len(evaluationJobs) + 1, uploadId |-> uploadId,
                  status |-> "queued", createdAt |-> now,
                  message |-> "Evaluation queued for processing",
                  startedAt |-> 0, completedAt |-> 0, failedAt |-> 0,
                  result |-> Undefined, error |-> "undefined"])
          /\ pipe' = Append(pipe, Done(NewFrame(EmptyText, EmptyText)))
          /\ response' = Sent("evaluate", 400, 0, "none", {"error", "message", "help"})
    /\ UNCHANGED <<probe, service, useMockResponses, documents, initialized, uploadedFiles,
                   now>>

\* POST /evaluate without a uploadId (0) or with one that was never uploaded
EvaluateInvalid ==
    /\ \E uploadId \in 0..(MaxUploads + 1) :
          /\ uploadId = 0 \/ uploadId \notin DOMAIN uploadedFiles
          /\ response' = Sent("evaluate", 400, 0, "none", {"error", "message", "help"})
    /\ UNCHANGED <<probe, service, useMockResponses, documents, initialized, uploadedFiles,
                   evaluationJobs, pipe, now>>

\* the job POST /evaluate stores
NewJob(evaluationId, uploadId, time) ==
    [id |-> evaluationId, uploadId |-> uploadId, status |-> "queued",
     createdAt |-> time, message |-> "Evaluation queued for processing",
     startedAt |-> NoDate, completedAt |-> NoDate, failedAt |-> NoDate,
     result |-> Undefined, error |-> NoError]

\* a pipeline that is started in a later task and leaves the record as created
ProcessingStartedLater(job, time) == job

\* processEvaluation up to its first await
ProcessingStarted(job, time) ==
    [job EXCEPT !.status = "processing",
                !.message = "Extracting text from uploaded files...",
                !.startedAt = time]

\* a handler that answers with the uploadId in place of the job's id
EvaluateAnswersUploadId ==
    /\ Len(evaluationJobs) < JobCap
    /\ \E uploadId \in DOMAIN uploadedFiles, cvReadable \in BOOLEAN,
          projectReadable \in BOOLEAN :
          LET evaluationId == Len(evaluationJobs) + 1
              time == now + 1
              uploadData == uploadedFiles[uploadId]
              job == ProcessingStarted(NewJob(evaluationId, uploadId, time), time)
              f == NewFrame(extractFileContent(uploadData.cv, cvReadable),
                            extractFileContent(uploadData.project, projectReadable))
              next == EnterStage("structure", f, job, documents, time)
          IN  /\ evaluationJobs' = Append(evaluationJobs, next.job)
              /\ pipe' = Append(pipe, next.frame)
              /\ response' = Sent("evaluate", 200, uploadId, "queued",
                                   {"id", "status", "message", "check_result",
                                    "estimated_time"})
    /\ now' = now + 1
    /\ UNCHANGED <<probe, service, useMockResponses, documents, initialized, uploadedFiles>>

\* POST /evaluate with a known uploadId: the handler stores the job, calls
\* processEvaluation, which runs up to its first await, and responds; the
\* microtasks that follow extract both files and call the first stage.
Evaluate ==
    /\ Len(evaluationJobs) < JobCap
    /\ \E uploadId \in DOMAIN uploadedFiles, cvReadable \in BOOLEAN,
          projectReadable \in BOOLEAN :
          LET evaluationId == Len(evaluationJobs) + 1
              time == now + 1
              uploadData == uploadedFiles[uploadId]
              job == ProcessingStarted(NewJob(evaluationId, uploadId, time), time)
              f == NewFrame(extractFileContent(uploadData.cv, cvReadable),
                            extractFileContent(uploadData.project, projectReadable))
              next == EnterStage("structure", f, job, documents, time)
          IN  /\ evaluationJobs' = Append(evaluationJobs, next.job)
              /\ pipe' = Append(pipe, next.frame)
              /\ response' = Sent("evaluate", 200, evaluationId, "queued",
                                   {"id", "status", "message", "check_result",
                                    "estimated_time"})
    /\ now' = now + 1
    /\ UNCHANGED <<probe, service, useMockResponses, documents, initialized, uploadedFiles>>

\* a handler that answers for an unknown id as for a queued job
JobViewUnknownAsQueued(jobs, evaluationId) ==
    IF evaluationId \notin DOMAIN jobs
    THEN [code |-> 200, status |-> "queued",
          body |-> [id |-> evaluationId, status |-> "queued",
                    message |-> "Evaluation queued for processing",
                    createdAt |-> now, elapsed_time |-> 0]]
    ELSE LET job == jobs[evaluationId]
         IN  [code |-> 200, status |-> job.status,
              body |-> [id |-> evaluationId, status |-> job.status,
                        message |-> job.message, createdAt |-> job.createdAt,
                        elapsed_time |-> now - job.createdAt]]

\* the body GET /result/:id answers with
JobView(jobs, evaluationId) ==
    IF evaluationId \notin DOMAIN jobs
    THEN [code |-> 404, status |-> "none",
          body |-> [error |-> "Evaluation not found",
                    message |-> "Please check your evaluation ID",
                    help |-> "Start evaluation first using POST /evaluate"]]
    ELSE LET job == jobs[evaluationId]
         IN  IF job.status = "completed"
             THEN [code |-> 200, status |-> "completed",
                   body |-> [id |-> evaluationId, status |-> "completed",
                             result |-> job.result,
                             processing_time |-> job.completedAt - job.createdAt,
                             processedAt |-> job.completedAt]]
             ELSE IF job.status = "failed"
             THEN [code |-> 200, status |-> "failed",
                   body |-> [id |-> evaluationId, status |-> "failed",
                             error |-> job.error, message |-> job.message,
                             failedAt |-> job.failedAt]]
             ELSE [code |-> 200, status |-> job.status,
                   body |-> [id |-> evaluationId, status |-> job.status,
                             message |-> job.message, createdAt |-> job.createdAt,
                             elapsed_time |-> now - job.createdAt]]

\* GET /result/:id
GetResult ==
    /\ \E evaluationId \in ResultIds :
          LET view == JobView(evaluationJobs, evaluationId)
          IN  response' = Sent("result", view.code, evaluationId, view.status,
                               DOMAIN view.body)
    /\ UNCHANGED <<probe, service, useMockResponses, documents, initialized, uploadedFiles,
                   evaluationJobs, pipe, now>>

\* a continuation that writes to the record of the job submitted last
ResumeWritesLatestJob(id, next) ==
    /\ UNCHANGED <<probe, service, useMockResponses, documents, initialized, uploadedFiles,
                   response>>
    /\ \E step \in {next} :
          /\ evaluationJobs' = [evaluationJobs EXCEPT ![Len(evaluationJobs)] = step.job]
          /\ pipe' = [pipe EXCEPT ![id] = step.frame]
          /\ now' = IF step.job.status # evaluationJobs[id].status THEN now + 1 ELSE now

\* the pipeline of job `id` takes the step `next`
Resume(id, next) ==
    /\ UNCHANGED <<probe, service, useMockResponses, documents, initialized, uploadedFiles,
                   response>>
    /\ \E step \in {next} :
          /\ evaluationJobs' = [evaluationJobs EXCEPT ![id] = step.job]
          /\ pipe' = [pipe EXCEPT ![id] = step.frame]
          /\ now' = IF step.job.status # evaluationJobs[id].status THEN now + 1 ELSE now

\* The sleep of a heuristic stage is over: the stage computes its value.
HeuristicTimer(id) ==
    /\ service = "heuristic"
    /\ pipe[id].wait = "timer"
    /\ LET f == pipe[id]
           out == HeuristicStage(f.stage, f, documents)
       IN  Resume(id, IF out.ok
                      THEN StageReturned(f.stage, out.value, f, evaluationJobs[id],
                                         documents, now + 1)
                      ELSE StageThrew(out.error, f, evaluationJobs[id], now + 1))

\* callOpenAI returned `body` to the stage after the API replied `reply`
WrapperReturned(id, body, reply) ==
    LET f == [pipe[id] EXCEPT !.lastInvoke = Invoke(pipe[id].stage, "content", reply, body),
                              !.allExhausted = FALSE]
    IN  Resume(id, StageReturned(f.stage, ParseResponse(f.stage, body, f), f,
                                 evaluationJobs[id], documents, now + 1))

\* a stage without a catch block: the error reaches processEvaluation
WrapperThrewUncaught(id, reply) ==
    LET f == [pipe[id] EXCEPT !.lastInvoke = Invoke(pipe[id].stage, "exhausted", reply,
                                                    TextBody)]
    IN  Resume(id, StageThrew("OpenAI API failed after 3 attempts", f,
                              evaluationJobs[id], now + 1))

\* callOpenAI threw after `reply`: the stage's catch block returns the fallback
WrapperThrew(id, reply) ==
    LET f == [pipe[id] EXCEPT !.lastInvoke = Invoke(pipe[id].stage, "exhausted", reply,
                                                    TextBody)]
    IN  Resume(id, StageReturned(f.stage, Fallback(f.stage, f), f,
                                 evaluationJobs[id], documents, now + 1))

\* Mock mode: callOpenAI's sleep is over and it returns the mock response.
MockTimer(id) ==
    /\ service = "production" /\ useMockResponses
    /\ pipe[id].wait = "timer"
    /\ LET f == pipe[id]
           body == generateMockResponse(f.stage)
       IN  WrapperReturned(id, body, [kind |-> "content", body |-> body])

\* a wrapper whose backoff sleep holds up the calls of every other job
ApiSettledAfterBackoffs(id) ==
    /\ pipe[id].wait = "api"
    /\ \A other \in DOMAIN pipe : pipe[other].wait # "backoff"
    /\ \E outcome \in ApiOutcomes(pipe[id].stage) :
          LET f == pipe[id]
          IN  IF outcome.kind = "content"
              THEN WrapperReturned(id, outcome.body, outcome)
              ELSE IF ShouldRetry(f.attempt)
              THEN Resume(id,
                       [frame |-> [f EXCEPT !.wait = "backoff",
                                            !.lastReply = outcome.kind,
                                            !.delays = Append(f.delays, BackoffDelay(f.attempt))],
                        job |-> evaluationJobs[id]])
              ELSE WrapperThrew(id, outcome)

\* a wrapper that returns whatever the API answered, empty or not
ApiSettledReturnsEmpty(id) ==
    /\ pipe[id].wait = "api"
    /\ \E outcome \in ApiOutcomes(pipe[id].stage) :
          LET f == pipe[id]
          IN  IF outcome.kind \in {"content", "empty"}
              THEN WrapperReturned(id, outcome.body, outcome)
              ELSE IF ShouldRetry(f.attempt)
              THEN Resume(id,
                       [frame |-> [f EXCEPT !.wait = "backoff",
                                            !.lastReply = outcome.kind,
                                            !.delays = Append(f.delays, BackoffDelay(f.attempt))],
                        job |-> evaluationJobs[id]])
              ELSE WrapperThrew(id, outcome)

\* One chat.completions.create call of job `id` settles.  With content the
\* wrapper returns it.  Without, or on an error, callOpenAI's catch block
\* either sleeps before the next attempt or throws, and the stage's catch
\* block returns the stage's fallback.
ApiSettled(id) ==
    /\ pipe[id].wait = "api"
    /\ \E outcome \in ApiOutcomes(pipe[id].stage) :
          LET f == pipe[id]
          IN  IF outcome.kind = "content"
              THEN WrapperReturned(id, outcome.body, outcome)
              ELSE IF ShouldRetry(f.attempt)
              THEN Resume(id,
                       [frame |-> [f EXCEPT !.wait = "backoff",
                                            !.lastReply = outcome.kind,
                                            !.delays = Append(f.delays, BackoffDelay(f.attempt))],
                        job |-> evaluationJobs[id]])
              ELSE WrapperThrew(id, outcome)

\* The backoff sleep is over: callOpenAI calls itself with attempt + 1.
BackoffTimer(id) ==
    /\ pipe[id].wait = "backoff"
    /\ Resume(id, [frame |-> [pipe[id] EXCEPT !.wait = "api",
                                              !.attempt = pipe[id].attempt + 1,
                                              !.calls = pipe[id].calls + 1],
                   job |-> evaluationJobs[id]])

PipelineStep(id) ==
    /\ id \in DOMAIN pipe
    /\ \/ HeuristicTimer(id)
       \/ MockTimer(id)
       \/ ApiSettled(id)
       \/ BackoffTimer(id)

Next ==
    \/ Initialize
    \/ Upload
    \/ EvaluateInvalid
    \/ Evaluate
    \/ GetResult
    \/ \E id \in DOMAIN pipe : HeuristicTimer(id)
    \/ \E id \in DOMAIN pipe : MockTimer(id)
    \/ \E id \in DOMAIN pipe : ApiSettled(id)
    \/ \E id \in DOMAIN pipe : BackoffTimer(id)

Spec == Init /\ [][Next]_vars

\* Timers fire and API calls settle: while some pipeline has a step to take,
\* one is taken.  Every pipeline has finitely many steps, so each gets its own.
FairSpec == Spec /\ WF_vars(\E id \in DOMAIN pipe : PipelineStep(id))

(***************************** the server with two uploads ******************)
\* the upload store after two POST /upload requests
TwoUploads ==
    <<[id |-> 1, cv |-> TextFile(SeniorCvText), project |-> TextFile(FullProjectText),
       uploadedAt |-> 1],
      [id |-> 2, cv |-> PdfFile, project |-> PdfFile, uploadedAt |-> 2]>>

\* the step of a pipeline whose invoke at the current stage is exhausted
\* (what WrapperThrew hands to Resume)
Exhausted(step, docs, time) ==
    LET f == [step.frame EXCEPT
                 !.lastInvoke = Invoke(step.frame.stage, "exhausted",
                                       [kind |-> "error", body |-> TextBody], TextBody)]
    IN  StageReturned(f.stage, Fallback(f.stage, f), f, step.job, docs, time)

\* a job of the production service, submitted at `time` for `uploadId`, whose
\* first five stages got their fallback: its summary call is under way
AtSummary(evaluationId, uploadId, time) ==
    LET uploadData == TwoUploads[uploadId]
        job == ProcessingStarted(NewJob(evaluationId, uploadId, time), time)
        f == NewFrame(extractFileContent(uploadData.cv, TRUE),
                      extractFileContent(uploadData.project, TRUE))
        s1 == EnterStage("structure", f, job, DocumentIds, time)
        s2 == Exhausted(s1, DocumentIds, time)
        s3 == Exhausted(s2, DocumentIds, time)
        s4 == Exhausted(s3, DocumentIds, time)
        s5 == Exhausted(s4, DocumentIds, time)
    IN  Exhausted(s5, DocumentIds, time)

\* the server once it listens, the documents are loaded and two uploads are
\* stored; with the API behind the production service, two jobs were
\* submitted as well and both have reached their last stage
ConcurrentInit ==
    /\ service \in {"heuristic", "production"}
    /\ useMockResponses \in BOOLEAN
    /\ service = "heuristic" => ~useMockResponses
    /\ documents = DocumentIds
    /\ initialized = TRUE
    /\ uploadedFiles = TwoUploads
    /\ probe = NoProbe
    /\ \/ /\ evaluationJobs = <<>>
          /\ pipe = <<>>
          /\ now = 2
          /\ response = NoResponse
       \/ /\ service = "production" /\ ~useMockResponses
          /\ evaluationJobs = <<AtSummary(1, 1, 3).job, AtSummary(2, 2, 4).job>>
          /\ pipe = <<AtSummary(1, 1, 3).frame, AtSummary(2, 2, 4).frame>>
          /\ now = 4
          /\ response = Sent("evaluate", 200, 2, "queued",
                             {"id", "status", "message", "check_result",
                              "estimated_time"})

ConcurrentNext ==
    \/ EvaluateInvalid
    \/ Evaluate
    \/ GetResult
    \/ \E id \in DOMAIN pipe : HeuristicTimer(id)
    \/ \E id \in DOMAIN pipe : MockTimer(id)
    \/ \E id \in DOMAIN pipe : ApiSettled(id)
    \/ \E id \in DOMAIN pipe : BackoffTimer(id)

ConcurrentSpec == ConcurrentInit /\ [][ConcurrentNext]_vars

(***************************** the scoring functions on their own ***********)
\* CV texts the scoring functions are applied to: every combination of six
\* of the keywords the heuristics look for, with and without a year figure
CvKeywords == {"node.js", "aws", "llm", "improved", "led", "team"}
CvTexts ==
    {Text(kw, years, len) : kw \in SUBSET CvKeywords, years \in {NoYears, 1, 5},
                            len \in {150}}

\* project reports the scoring functions are applied to
ProjectKeywords == {"llm", "rag", "express", "test", "retry", "readme"}
ProjectTexts ==
    {Text(kw, NoYears, len) : kw \in SUBSET ProjectKeywords, len \in {50, 250, 450}}

\* the scores generateOverallSummary is given: percent, and tenths
CvScores == 0..100
ProjectOverallScores == 10..50

\* a call about to be made, and the call once it returned
\* (saw: the documents a retrieval call read)
Call(fn, input) ==
    [fn |-> fn, input |-> input, done |-> FALSE, output |-> Undefined, saw |-> <<>>]
Returned(call, output) == [call EXCEPT !.done = TRUE, !.output = output]
Calling(fn) == probe.fn = fn /\ ~probe.done

ScoreInputs == [cvScore : CvScores, projScore : ProjectOverallScores]

ScoringInit ==
    /\ service = "heuristic"
    /\ useMockResponses = FALSE
    /\ documents = DocumentIds
    /\ initialized = TRUE
    /\ uploadedFiles = <<>>
    /\ evaluationJobs = <<>>
    /\ pipe = <<>>
    /\ now = 0
    /\ response = NoResponse
    /\ probe \in {Call("evaluateCVMatch", cvText) : cvText \in CvTexts}
          \cup {Call("fallbackEvaluateCV", cvText) : cvText \in CvTexts}
          \cup {Call("evaluateProject", projectText) : projectText \in ProjectTexts}
          \cup {Call("fallbackEvaluateProject", projectText) :
                   projectText \in ProjectTexts}
          \cup {Call("generateOverallSummary", scores) : scores \in ScoreInputs}
          \cup {Call("fallbackOverallSummary", scores) : scores \in ScoreInputs}

\* AIService.extractCVInfo, then AIService.evaluateCVMatch on what it returned
CallEvaluateCVMatch ==
    /\ Calling("evaluateCVMatch")
    /\ probe' = Returned(probe,
                    HeuristicEvaluateCVMatch(HeuristicExtractCVInfo(probe.input)))
    /\ UNCHANGED server

\* ProductionAIService.fallbackEvaluateCV
CallFallbackEvaluateCV ==
    /\ Calling("fallbackEvaluateCV")
    /\ probe' = Returned(probe, fallbackEvaluateCV)
    /\ UNCHANGED server

\* AIService.evaluateProject
CallEvaluateProject ==
    /\ Calling("evaluateProject")
    /\ probe' = Returned(probe, HeuristicEvaluateProject(probe.input))
    /\ UNCHANGED server

\* ProductionAIService.fallbackEvaluateProject
CallFallbackEvaluateProject ==
    /\ Calling("fallbackEvaluateProject")
    /\ probe' = Returned(probe, fallbackEvaluateProject)
    /\ UNCHANGED server

\* AIService.generateOverallSummary
CallGenerateOverallSummary ==
    /\ Calling("generateOverallSummary")
    /\ probe' = Returned(probe,
                    HeuristicOverallSummary([score |-> Num(probe.input.cvScore)],
                                            [overallScore |-> Num(probe.input.projScore)]))
    /\ UNCHANGED server

\* ProductionAIService.fallbackOverallSummary
CallFallbackOverallSummary ==
    /\ Calling("fallbackOverallSummary")
    /\ probe' = Returned(probe, fallbackOverallSummary(Num(probe.input.cvScore),
                                                       Num(probe.input.projScore)))
    /\ UNCHANGED server

ScoringNext ==
    \/ CallEvaluateCVMatch
    \/ CallFallbackEvaluateCV
    \/ CallEvaluateProject
    \/ CallFallbackEvaluateProject
    \/ CallGenerateOverallSummary
    \/ CallFallbackOverallSummary

ScoringSpec == ScoringInit /\ [][ScoringNext]_vars

(***************************** services/vectorDB.js: retrieval **************)
\* For retrieval a string is the sequence of its characters.  The alphabet
\* has two lower-case letters, an upper-case one and a whitespace character.
Chars == {"a", "b", "A", " "}
IsSpace(c) == c = " "

\* String.prototype.toLowerCase
toLowerCase(s) == [i \in 1..Len(s) |-> IF s[i] = "A" THEN "a" ELSE s[i]]

\* String.prototype.includes
includes(s, sub) ==
    \E i \in 0..(Len(s) - Len(sub)) : SubSeq(s, i + 1, i + Len(sub)) = sub

\* String.prototype.split(/\s+/): the pieces between the maximal runs of
\* whitespace, an empty piece before a leading and after a trailing run
RECURSIVE split(_)
split(s) ==
    IF \A i \in 1..Len(s) : ~IsSpace(s[i])
    THEN <<s>>
    ELSE LET first == CHOOSE i \in 1..Len(s) :
                         IsSpace(s[i]) /\ \A j \in 1..(i - 1) : ~IsSpace(s[j])
             after == {j \in (first + 1)..Len(s) : ~IsSpace(s[j])}
             resume == IF after = {} THEN Len(s) + 1
                       ELSE CHOOSE j \in after : \A k \in after : j <= k
         IN  <<SubSeq(s, 1, first - 1)>> \o split(SubSeq(s, resume, Len(s)))

\* a sort that puts the lowest key first
RECURSIVE sortAscending(_)
sortAscending(keyed) ==
    IF keyed = <<>> THEN <<>>
    ELSE LET i == CHOOSE i \in 1..Len(keyed) :
                     /\ \A j \in 1..Len(keyed) : keyed[j].key >= keyed[i].key
                     /\ \A j \in 1..(i - 1) : keyed[j].key > keyed[i].key
         IN  <<keyed[i]>>
             \o sortAscending(SubSeq(keyed, 1, i - 1) \o SubSeq(keyed, i + 1, Len(keyed)))

\* keyed.sort((a, b) => b.key - a.key): descending by key; the sort is
\* stable, items with equal keys keep their order
RECURSIVE sortDescending(_)
sortDescending(keyed) ==
    IF keyed = <<>> THEN <<>>
    ELSE LET i == CHOOSE i \in 1..Len(keyed) :
                     /\ \A j \in 1..Len(keyed) : keyed[j].key <= keyed[i].key
                     /\ \A j \in 1..(i - 1) : keyed[j].key < keyed[i].key
         IN  <<keyed[i]>>
             \o sortDescending(SubSeq(keyed, 1, i - 1) \o SubSeq(keyed, i + 1, Len(keyed)))

\* Array.prototype.slice(0, n), n >= 0
slice(items, n) == SubSeq(items, 1, Min(n, Len(items)))

RECURSIVE Sum(_)
Sum(numbers) == IF numbers = <<>> THEN 0 ELSE Head(numbers) + Sum(Tail(numbers))

\* points that go by the length of the chunk's word
WordPointsByChunkWord(queryWord, chunkWord) ==
    IF includes(chunkWord, queryWord) \/ includes(queryWord, chunkWord)
    THEN (IF Len(chunkWord) > 3 THEN 2 ELSE 1)
    ELSE 0

\* the points calculateRelevanceScore's inner loop adds for one pair of words
WordPoints(queryWord, chunkWord) ==
    IF includes(chunkWord, queryWord) \/ includes(queryWord, chunkWord)
    THEN (IF Len(queryWord) > 3 THEN 2 ELSE 1)
    ELSE 0

\* the bonus "for exact matches"
ExactMatchBonus(chunk, queryWords) ==
    IF \E i \in 1..Len(queryWords) : includes(toLowerCase(chunk), queryWords[i])
    THEN 3 ELSE 0

\* VectorDB.calculateRelevanceScore
calculateRelevanceScore(chunk, queryWords) ==
    LET chunkWords == split(toLowerCase(chunk))
        forQueryWord(queryWord) ==
            Sum([j \in 1..Len(chunkWords) |-> WordPoints(queryWord, chunkWords[j])])
    IN  Sum([i \in 1..Len(queryWords) |-> forQueryWord(queryWords[i])])
        + ExactMatchBonus(chunk, queryWords)

\* VectorDB.findRelevantChunks
findRelevantChunks(chunks, query) ==
    LET queryWords == split(toLowerCase(query))
        scoredChunks == [i \in 1..Len(chunks) |->
                            [chunk |-> chunks[i],
                             key |-> calculateRelevanceScore(chunks[i], queryWords)]]
        positive(item) == item.key > 0
        top == slice(sortDescending(SelectSeq(scoredChunks, positive)), 3)
    IN  [i \in 1..Len(top) |-> top[i].chunk]

\* VectorDB.extractKeywords: the words of three and more characters, the
\* most frequent first, at most twenty (no stop word is in the alphabet)
extractKeywords(text) ==
    LET words == SelectSeq(split(toLowerCase(text)), LAMBDA w : Len(w) >= 3)
        firstAt(i) == \A j \in 1..(i - 1) : words[j] # words[i]
        count(w) == Cardinality({j \in 1..Len(words) : words[j] = w})
        distinct == SelectSeq([i \in 1..Len(words) |-> i], firstAt)
        wordCount == [k \in 1..Len(distinct) |->
                         [word |-> words[distinct[k]], key |-> count(words[distinct[k]])]]
        top == slice(sortDescending(wordCount), 20)
    IN  [k \in 1..Len(top) |-> top[k].word]

\* Array.prototype.join
RECURSIVE join(_, _)
join(strings, separator) ==
    IF strings = <<>> THEN <<>>
    ELSE IF Len(strings) = 1 THEN strings[1]
    ELSE strings[1] \o separator \o join(Tail(strings), separator)

\* the document storeDocument pushes, for a content that chunkDocument
\* splits into `chunks`
Document(id, category, chunks) ==
    [id |-> id, category |-> category, chunks |-> chunks,
     keywords |-> extractKeywords(join(chunks, <<" ", " ">>))]

\* a ranking that sorts the chunks it was given in place
ChunksSortedInPlace(chunks, query) ==
    LET queryWords == split(toLowerCase(query))
        scoredChunks == [i \in 1..Len(chunks) |->
                            [chunk |-> chunks[i],
                             key |-> calculateRelevanceScore(chunks[i], queryWords)]]
        sorted == sortDescending(scoredChunks)
    IN  [i \in 1..Len(sorted) |-> sorted[i].chunk]

\* what a retrieval call leaves of the chunks it ranked: map, filter and sort
\* work on copies
ChunksAfterRanking(chunks, query) == chunks

\* documents.find(doc => doc.id === id)
FindDocument(docs, id) ==
    IF \E i \in 1..Len(docs) : docs[i].id = id
    THEN <<docs[CHOOSE i \in 1..Len(docs) :
                   docs[i].id = id /\ \A j \in 1..(i - 1) : docs[j].id # id]>>
    ELSE <<>>

\* the value an await yields, or the error it throws
Value(v) == [ok |-> TRUE, value |-> v]

\* VectorDB.getJobRequirements and VectorDB.getScoringRubric, for the
\* document `id`; a null query is the empty string
RelevantContent(docs, id, query, notLoaded) ==
    LET found == FindDocument(docs, id)
    IN  IF found = <<>> THEN Throw(notLoaded)
        ELSE IF query = <<>> THEN Value(found[1].chunks)
        ELSE Value(findRelevantChunks(found[1].chunks, query))

\* VectorDB.searchDocuments
searchDocuments(docs, query, limit) ==
    LET results == [i \in 1..Len(docs) |->
                       [id |-> docs[i].id, category |-> docs[i].category,
                        relevantChunks |-> findRelevantChunks(docs[i].chunks, query),
                        key |-> Len(findRelevantChunks(docs[i].chunks, query))]]
        relevant(result) == result.key > 0
        top == slice(sortDescending(SelectSeq(results, relevant)), limit)
    IN  [i \in 1..Len(top) |->
            [id |-> top[i].id, category |-> top[i].category,
             relevantChunks |-> top[i].relevantChunks,
             totalRelevance |-> top[i].key]]

\* a guard that only refuses a request without q
QueryIsUndefined(request) == ~request.hasQuery

\* !query in GET /vectordb/search: q is missing, or the empty string
QueryIsFalsy(request) == ~request.hasQuery \/ request.q = <<>>

\* limit = 3 unless the request names one
NoLimit == -1
RequestedLimit(request) == IF request.limit = NoLimit THEN 3 ELSE request.limit

\* GET /vectordb/search (searched: vectorDB.searchDocuments was called)
VectordbSearch(docs, request) ==
    IF QueryIsFalsy(request)
    THEN [code |-> 400, searched |-> FALSE,
          body |-> [error |-> "Query parameter \"q\" is required",
                    example |-> "/vectordb/search?q=backend%20skills&limit=2"]]
    ELSE LET results == searchDocuments(docs, request.q, RequestedLimit(request))
         IN  [code |-> 200, searched |-> TRUE,
              body |-> [query |-> request.q, results |-> results,
                        total |-> Len(results), message |-> Len(results)]]

(***************************** the retrieval functions on their own *********)
\* the longest query drawn from the whole alphabet
MaxQueryLen == 3
\* the longest chunk list findRelevantChunks is given
MaxChunks == 4
\* the largest limit searchDocuments is given
MaxLimit == 3

Strings(n) == UNION {[1..k -> Chars] : k \in 0..n}

\* queries with a word of more than three characters
LongQueries ==
    { <<"a", "b", "a", "b">>, <<"a", "b", "a", "b", " ", "b">>,
      <<"b", " ", "A", "b", "a", "b">>, <<"b", "a", "b", "a", "b">> }
Queries == Strings(MaxQueryLen) \cup LongQueries

\* chunks: trimmed and not empty, as chunkDocument leaves them
ChunkPool == { <<"A", "b">>, <<"b", " ", "a">>, <<"a", "b", "a", "b", " ", "b">> }
ChunkLists == UNION {[1..k -> ChunkPool] : k \in 0..MaxChunks}

\* the chunks of the two documents loadJobRequirements and loadScoringRubric
\* store
JobChunkLists ==
    { << <<"A", "b">>, <<"b", " ", "a">>, <<"a", "b", "a", "b", " ", "b">>, <<"A", "b">> >>,
      << <<"b", " ", "a">> >> }
RubricChunkLists ==
    { << <<"b", " ", "a">>, <<"A", "b">>, <<"a", "b", "a", "b", " ", "b">>,
         <<"b", " ", "a">>, <<"A", "b">> >>,
      << <<"a", "b", "a", "b", " ", "b">>, <<"A", "b">> >> }

\* the requests GET /vectordb/search is sent: with or without q and limit
SearchRequests ==
    {[hasQuery |-> TRUE, q |-> query, limit |-> limit] :
        query \in Queries, limit \in {NoLimit, 0, MaxLimit}}
    \cup {[hasQuery |-> FALSE, q |-> <<>>, limit |-> limit] :
        limit \in {NoLimit, 0, MaxLimit}}

(************************* extractBulletPoints *****************************)
\* String.prototype.trim
RECURSIVE trim(_)
trim(s) ==
    IF s = <<>> THEN s
    ELSE IF IsSpace(s[1]) THEN trim(Tail(s))
    ELSE IF IsSpace(s[Len(s)]) THEN trim(SubSeq(s, 1, Len(s) - 1))
    ELSE s

\* String.prototype.startsWith for a prefix of one character; the character
\* "*" stands for the bullet U+2022
startsWith(s, c) == s # <<>> /\ s[1] = c

\* the test that ends the section: the trimmed line is not empty, it does
\* not start with a space, and a bullet point was collected
EndOfSection(line, bulletPoints) ==
    line # <<>> /\ ~startsWith(line, " ") /\ bulletPoints # <<>>

\* the loop of extractBulletPoints from index i (1-based) on
RECURSIVE CollectBulletPoints(_, _, _)
CollectBulletPoints(lines, i, bulletPoints) ==
    IF i > Len(lines) THEN bulletPoints
    ELSE LET line == trim(lines[i])
         IN  IF startsWith(line, "-") \/ startsWith(line, "*")
             THEN CollectBulletPoints(lines, i + 1,
                                      Append(bulletPoints, trim(Tail(line))))
             ELSE IF EndOfSection(line, bulletPoints) THEN bulletPoints
             ELSE CollectBulletPoints(lines, i + 1, bulletPoints)

\* extractBulletPoints(text, sectionName), lines = text.split('\n')
extractBulletPoints(lines, sectionName) ==
    LET found == {i \in 1..Len(lines) : includes(lines[i], sectionName)}
    IN  IF found = {} THEN <<>>
        ELSE CollectBulletPoints(lines, (CHOOSE i \in found : \A j \in found : i <= j) + 1,
                                 <<>>)

\* the lines of the texts: a heading, a plain and an indented line of text, a
\* blank line, and bullets with either marker, plain and indented
MaxLines == 4
LinePool ==
    { <<"A">>, <<"b">>, <<" ", "b">>, <<>>,
      <<"-", " ", "a">>, <<"*", "b">>, <<" ", "-", "b", " ">> }
SectionTexts == UNION {[1..n -> LinePool] : n \in 0..MaxLines}
SectionNames == { <<"A">>, <<"A", "A">> }

RetrievalCalls ==
    {Call("calculateRelevanceScore", [chunk |-> chunk, query |-> query]) :
        chunk \in ChunkPool, query \in Queries}
    \cup {Call("findRelevantChunks", [chunks |-> chunks, query |-> query]) :
        chunks \in ChunkLists, query \in Queries}
    \cup {Call("searchDocuments", [query |-> query, limit |-> limit]) :
        query \in Queries, limit \in 0..MaxLimit}
    \cup {Call("GET /vectordb/search", request) : request \in SearchRequests}
    \cup {Call("extractBulletPoints", [lines |-> lines, sectionName |-> sectionName]) :
        lines \in SectionTexts, sectionName \in SectionNames}
    \cup {Call("getJobRequirements", [query |-> query]) : query \in Queries}
    \cup {Call("getScoringRubric", [query |-> query]) : query \in Queries}

RetrievalInit ==
    /\ service = "heuristic"
    /\ useMockResponses = FALSE
    /\ documents = <<>>
    /\ initialized = FALSE
    /\ uploadedFiles = <<>>
    /\ evaluationJobs = <<>>
    /\ pipe = <<>>
    /\ now = 0
    /\ response = NoResponse
    /\ probe \in RetrievalCalls

\* VectorDB.initialize: loadJobRequirements and loadScoringRubric store one
\* document each
LoadDocuments ==
    /\ ~initialized
    /\ \E jobChunks \in JobChunkLists, rubricChunks \in RubricChunkLists :
          documents' = documents
              \o <<Document("job-requirements", "job-description", jobChunks),
                   Document("scoring-rubric", "evaluation-criteria", rubricChunks)>>
    /\ initialized' = TRUE
    /\ UNCHANGED <<service, useMockResponses, uploadedFiles, evaluationJobs, pipe, now,
                   response, probe>>

\* the store after a retrieval call ranked the chunks of the documents `ids`
StoreAfterRanking(docs, ids, query) ==
    [i \in 1..Len(docs) |->
        IF docs[i].id \in ids
        THEN [docs[i] EXCEPT !.chunks = ChunksAfterRanking(docs[i].chunks, query)]
        ELSE docs[i]]

Retrieved(output, docs) ==
    /\ probe' = [Returned(probe, output) EXCEPT !.saw = documents]
    /\ documents' = docs
    /\ UNCHANGED <<service, useMockResponses, initialized, uploadedFiles,
                   evaluationJobs, pipe, now, response>>

\* a call of calculateRelevanceScore, with the words findRelevantChunks passes
CallCalculateRelevanceScore ==
    /\ probe.fn = "calculateRelevanceScore"
    /\ Retrieved(calculateRelevanceScore(probe.input.chunk,
                     split(toLowerCase(probe.input.query))),
                 documents)

\* a call of findRelevantChunks
CallFindRelevantChunks ==
    /\ probe.fn = "findRelevantChunks"
    /\ Retrieved([chunks |-> findRelevantChunks(probe.input.chunks, probe.input.query),
                  given |-> ChunksAfterRanking(probe.input.chunks, probe.input.query)],
                 documents)

\* a call of searchDocuments
CallSearchDocuments ==
    /\ probe.fn = "searchDocuments"
    /\ Retrieved(searchDocuments(documents, probe.input.query, probe.input.limit),
                 StoreAfterRanking(documents, {documents[i].id : i \in 1..Len(documents)},
                                   probe.input.query))

\* GET /vectordb/search
GetVectordbSearch ==
    /\ probe.fn = "GET /vectordb/search"
    /\ LET answer == VectordbSearch(documents, probe.input)
       IN  IF answer.searched
           THEN Retrieved(answer,
                    StoreAfterRanking(documents,
                        {documents[i].id : i \in 1..Len(documents)}, probe.input.q))
           ELSE /\ probe' = Returned(probe, answer)
                /\ UNCHANGED server

\* a call of getJobRequirements, as the context builders make it
CallGetJobRequirements ==
    /\ probe.fn = "getJobRequirements"
    /\ Retrieved(RelevantContent(documents, "job-requirements", probe.input.query,
                                 "Job requirements not loaded"),
                 StoreAfterRanking(documents, {"job-requirements"}, probe.input.query))

\* a call of getScoringRubric, as the context builders make it
CallGetScoringRubric ==
    /\ probe.fn = "getScoringRubric"
    /\ Retrieved(RelevantContent(documents, "scoring-rubric", probe.input.query,
                                 "Scoring rubric not loaded"),
                 StoreAfterRanking(documents, {"scoring-rubric"}, probe.input.query))

\* a call of extractBulletPoints
CallExtractBulletPoints ==
    /\ probe.fn = "extractBulletPoints"
    /\ Retrieved(extractBulletPoints(probe.input.lines, probe.input.sectionName), documents)

RetrievalNext ==
    \/ LoadDocuments
    \/ CallCalculateRelevanceScore
    \/ CallFindRelevantChunks
    \/ CallSearchDocuments
    \/ GetVectordbSearch
    \/ CallGetJobRequirements
    \/ CallGetScoringRubric
    \/ CallExtractBulletPoints

RetrievalSpec == RetrievalInit /\ [][RetrievalNext]_vars

(***************************** properties ***********************************)
Terminal == {"completed", "failed"}
Rank(status) ==
    CASE status = "queued" -> 0
      [] status = "processing" -> 1
      [] OTHER -> 2
\* status `b` is `a`, or a later status on queued -> processing -> terminal
Forward(a, b) == a = b \/ (Rank(a) < Rank(b) /\ a \notin Terminal)

\* C1: a job's status only moves forward along queued -> processing ->
\* (completed or failed), and what GET /result/:id has reported for a job is
\* never ahead of the job's stored status, so that no later GET reports an
\* earlier status than one already reported.
C1_StatusOnlyMovesForward ==
    [][/\ \A id \in DOMAIN evaluationJobs :
             Forward(evaluationJobs[id].status, evaluationJobs'[id].status)
       /\ (response.op = "result" /\ response.code = 200)
             => Forward(response.status, evaluationJobs[response.id].status)
       /\ (response.op = "result" /\ response'.op = "result"
           /\ response.id = response'.id /\ response.code = 200)
             => (response'.code = 200 /\ Forward(response.status, response'.status))
      ]_vars

\* a failed job that GET /result/:id has reported as failed
C1_Witness ==
    /\ response.op = "result" /\ response.code = 200 /\ response.status = "failed"
    /\ evaluationJobs[response.id].startedAt # NoDate

\* C2: every job's status is one of the four; result is set exactly on
\* completed jobs and error exactly on failed ones, never both.
C2_ResultAndErrorFollowStatus ==
    \A id \in DOMAIN evaluationJobs :
        LET job == evaluationJobs[id]
        IN  /\ job.status \in {"queued", "processing", "completed", "failed"}
            /\ (job.result # Undefined) <=> (job.status = "completed")
            /\ (job.error # NoError) <=> (job.status = "failed")
            /\ ~(job.result # Undefined /\ job.error # NoError)

\* a completed job with its result next to a failed job with its error
C2_Witness ==
    \E i, j \in DOMAIN evaluationJobs :
        /\ evaluationJobs[i].status = "completed" /\ evaluationJobs[i].result # Undefined
        /\ evaluationJobs[j].status = "failed" /\ evaluationJobs[j].error # NoError

\* C3: no step changes a field of a completed or failed job, and completedAt
\* and failedAt are written once, by the step that makes the job completed
\* or failed respectively.
C3_TerminalJobsAreFrozen ==
    [][\A id \in DOMAIN evaluationJobs :
          LET job == evaluationJobs[id]
              job1 == evaluationJobs'[id]
          IN  /\ job.status \in Terminal => job1 = job
              /\ job1.completedAt # job.completedAt
                    => /\ job.completedAt = NoDate
                       /\ job.status = "processing" /\ job1.status = "completed"
              /\ job1.failedAt # job.failedAt
                    => /\ job.failedAt = NoDate
                       /\ job.status = "processing" /\ job1.status = "failed"
      ]_vars

\* a job that was submitted and has finished after another job completed
C3_Witness ==
    \E i, j \in DOMAIN evaluationJobs :
        /\ evaluationJobs[i].status = "completed"
        /\ evaluationJobs[j].createdAt > evaluationJobs[i].completedAt
        /\ evaluationJobs[j].status \in Terminal

\* C4: POST /evaluate with a stored uploadId adds exactly one job, for that
\* upload, answers 200 with the new job's id, and GET /result/:id of that id
\* then answers 200 with status queued or processing.
C4_SubmitCreatesOneVisibleJob ==
    [][(\/ Len(evaluationJobs') # Len(evaluationJobs)
        \/ (response' # response /\ response'.op = "evaluate" /\ response'.code = 200))
         => /\ Len(evaluationJobs') = Len(evaluationJobs) + 1
            /\ SubSeq(evaluationJobs', 1, Len(evaluationJobs)) = evaluationJobs
            /\ response' = Sent("evaluate", 200, Len(evaluationJobs'), "queued",
                                response'.fields)
            /\ evaluationJobs'[response'.id].id = response'.id
            /\ evaluationJobs'[response'.id].uploadId \in DOMAIN uploadedFiles
            /\ JobView(evaluationJobs', response'.id).code = 200
            /\ JobView(evaluationJobs', response'.id).status \in {"queued", "processing"}
      ]_vars

\* POST /evaluate has just answered with the id of the second job
C4_Witness ==
    /\ response.op = "evaluate" /\ response.code = 200 /\ response.id = 2
    /\ JobView(evaluationJobs, response.id).status = "processing"

\* C5: under fair scheduling of its pipeline, every job that is processing
\* is eventually completed or failed.
C5_ProcessingJobsFinish ==
    \A id \in 1..Max(MaxJobs, MaxProdJobs) :
        (id \in DOMAIN evaluationJobs /\ evaluationJobs[id].status = "processing")
        ~> (id \in DOMAIN evaluationJobs /\ evaluationJobs[id].status \in Terminal)

\* a processing job sleeping before its last attempt of the last stage
C5_Witness ==
    \E id \in DOMAIN pipe :
        /\ evaluationJobs[id].status = "processing"
        /\ pipe[id].stage = "summary" /\ pipe[id].wait = "backoff"
        /\ pipe[id].attempt = maxRetries - 1

Last(seq) == seq[Len(seq)]
DocumentErrors == {"Job requirements not loaded", "Scoring rubric not loaded"}

\* C6: when callOpenAI has thrown after its last attempt, the stage that
\* called it has returned its fallback value, the job has not failed in that
\* stage, and a job all of whose stages ended that way has completed unless
\* the documents were not loaded.
C6_ExhaustionYieldsFallback ==
    \A id \in DOMAIN pipe :
        LET f == pipe[id]
            job == evaluationJobs[id]
            stage == f.lastInvoke.stage
        IN  f.lastInvoke.outcome = "exhausted"
            => /\ StageValue(f, stage).src = "fallback"
               /\ StageValue(f, stage) = Fallback(stage, f)
               /\ job.status = "failed" => Last(f.ran) # stage
               /\ (f.allExhausted /\ f.stage = "done")
                     => (job.status = "completed" \/ job.error \in DocumentErrors)

\* a completed job every stage of which used up its attempts
C6_Witness ==
    \E id \in DOMAIN pipe :
        /\ pipe[id].allExhausted
        /\ pipe[id].lastInvoke = Invoke("summary", "exhausted", pipe[id].lastInvoke.reply,
                                        TextBody)
        /\ evaluationJobs[id].status = "completed"
        /\ evaluationJobs[id].result.overall_summary.src = "fallback"

\* a response that does not give the stage's structure: no JSON object, or
\* an object without breakdown or without score / overallScore
Malformed(body) == body.json # "object" \/ ~body.complete \/ body.value.nan

\* C7: a stage that got a malformed response has returned its fallback
\* value, and the job has not failed.
C7_MalformedYieldsFallback ==
    \A id \in DOMAIN pipe :
        LET f == pipe[id]
            stage == f.lastInvoke.stage
        IN  (f.lastInvoke.outcome = "content" /\ stage \in {"match", "project"}
             /\ Malformed(f.lastInvoke.returned))
            => /\ StageValue(f, stage) = Fallback(stage, f)
               /\ evaluationJobs[id].status # "failed"

\* C8: when every attempt of an invoke has failed, the delays it slept are
\* 1000, 2000 and 4000 ms, and the stage gets its fallback value.
C8_DelaysBeforeFallback ==
    [][\A id \in DOMAIN pipe :
          (pipe'[id].lastInvoke # pipe[id].lastInvoke
           /\ pipe'[id].lastInvoke.outcome = "exhausted")
          => /\ pipe[id].delays = <<1000, 2000, 4000>>
             /\ StageValue(pipe'[id], pipe[id].stage).src = "fallback"
      ]_vars

\* C9: an invoke makes at most maxRetries calls, one per attempt; a call
\* that yields content ends the invoke, which returns that content; a
\* failed call is followed by another only below maxRetries, and after the
\* last one the stage gets its fallback value.
C9_AtMostMaxRetriesCalls ==
    [][\A id \in DOMAIN pipe :
          LET f == pipe[id]
              f1 == pipe'[id]
          IN  /\ f.calls <= maxRetries /\ f1.calls <= maxRetries
              /\ f.wait \in {"api", "backoff"} => f.calls = f.attempt
              /\ (f1.lastInvoke # f.lastInvoke /\ f1.lastInvoke.outcome = "content")
                    => /\ f1.lastInvoke.reply.kind = "content"
                       /\ f1.lastInvoke.returned = f1.lastInvoke.reply.body
                       /\ f1.lastInvoke.stage = f.stage
                       /\ f1.stage # f.stage
              /\ (f1.lastInvoke # f.lastInvoke /\ f1.lastInvoke.outcome = "exhausted")
                    => /\ f.calls = maxRetries
                       /\ f1.lastInvoke.reply.kind \in {"error", "empty"}
                       /\ StageValue(f1, f.stage) = Fallback(f.stage, f1)
              /\ (f.wait = "api" /\ f1.calls = f.calls + 1)
                    => f.calls < maxRetries /\ f1.stage = f.stage
              /\ (f.wait = "api" /\ f1.wait = "backoff") => f.calls < maxRetries
      ]_vars

\* the third call of an invoke is under way after two failed ones
C9_Witness ==
    \E id \in DOMAIN pipe :
        /\ pipe[id].wait = "api" /\ pipe[id].calls = maxRetries
        /\ pipe[id].delays = <<1000, 2000>>
        /\ pipe[id].stage = "match"

\* C10: every completed job's cv_match_rate is in [0, 1] and its
\* project_score in [1.0, 5.0] (overall scores are kept in tenths).
C10_ScoresInRange ==
    \A id \in DOMAIN evaluationJobs :
        evaluationJobs[id].status = "completed"
        => LET result == evaluationJobs[id].result
           IN  /\ ~result.cv_match_rate.nan
               /\ 0 <= result.cv_match_rate.num
               /\ result.cv_match_rate.num <= result.cv_match_rate.den
               /\ ~result.project_score.nan
               /\ 10 <= result.project_score.v /\ result.project_score.v <= 50

(***************************** the scoring functions ************************)
\* round(20 * (0.40 t + 0.25 e + 0.20 a + 0.15 c)), in exact arithmetic:
\* 2000 times the weighted sum over 100, rounded half up
ClaimedCVScore(b) ==
    LET hundredths == 20 * (40 * b.technical_skills + 25 * b.experience_level
                            + 20 * b.achievements + 15 * b.cultural_fit)
    IN  (hundredths + 50) \div 100

InRange(breakdown) == \A k \in DOMAIN breakdown : breakdown[k] \in 1..5

\* C11: the score of every MatchResult, computed by the heuristics or
\* substituted by the fallback, is round(20 * (0.40 technical_skills +
\* 0.25 experience_level + 0.20 achievements + 0.15 cultural_fit)) of its own
\* breakdown, whose four scores are in 1..5.
C11_ScoreIsWeightedBreakdown ==
    (probe.fn \in {"evaluateCVMatch", "fallbackEvaluateCV"} /\ probe.done) =>
        /\ InRange(probe.output.breakdown)
        /\ probe.output.score = Num(ClaimedCVScore(probe.output.breakdown))
\* the part of C11 the heuristic service is responsible for
C11_HeuristicScoreIsWeightedBreakdown ==
    (probe.fn = "evaluateCVMatch" /\ probe.done) =>
        /\ InRange(probe.output.breakdown)
        /\ probe.output.score = Num(ClaimedCVScore(probe.output.breakdown))

\* 0.30 c + 0.25 q + 0.20 r + 0.15 d + 0.10 cr in exact arithmetic, rounded
\* half up to one decimal place; in tenths
ClaimedOverallScore(b) ==
    LET hundredths == 30 * b.correctness + 25 * b.code_quality + 20 * b.resilience
                      + 15 * b.documentation + 10 * b.creativity
    IN  (hundredths + 5) \div 10

\* C12: every ProjectScore, computed by the heuristics or substituted by the
\* fallback, has five criteria that are integers in 1..5 and an overallScore
\* equal to 0.30 correctness + 0.25 code_quality + 0.20 resilience +
\* 0.15 documentation + 0.10 creativity, rounded to one decimal place.
C12_OverallIsWeightedBreakdown ==
    (probe.fn \in {"evaluateProject", "fallbackEvaluateProject"} /\ probe.done) =>
        /\ InRange(probe.output.breakdown)
        /\ probe.output.overallScore = Num(ClaimedOverallScore(probe.output.breakdown))
\* what does hold of both: the criteria are in 1..5 and the overallScore is
\* within 0.05 of the weighted sum
C12_OverallIsNearWeightedBreakdown ==
    (probe.fn \in {"evaluateProject", "fallbackEvaluateProject"} /\ probe.done) =>
        /\ InRange(probe.output.breakdown)
        /\ probe.output.overallScore.v \in
              {ClaimedOverallScore(probe.output.breakdown) - 1,
               ClaimedOverallScore(probe.output.breakdown)}

\* the recommendation the thresholds fix; cv in percent, proj in tenths
ClaimedRecommendation(cv, proj) ==
    IF cv >= 80 /\ proj >= 40 THEN "highly recommended"
    ELSE IF cv >= 70 /\ proj >= 35 THEN "recommended"
    ELSE IF cv >= 60 /\ proj >= 30 THEN "needs discussion"
    ELSE "needs further development"

\* C13: for every CV score in 0..100 and project score in 1.0..5.0 the
\* overall summary, computed or fallback, carries the recommendation the
\* thresholds fix (80 / 4.0 highly recommended, 70 / 3.5 recommended,
\* 60 / 3.0 needs discussion, otherwise needs further development).
C13_SummaryFollowsThresholds ==
    (probe.fn \in {"generateOverallSummary", "fallbackOverallSummary"} /\ probe.done) =>
        probe.output.recommendation =
            ClaimedRecommendation(probe.input.cvScore, probe.input.projScore)
\* the part of C13 the heuristic service is responsible for
C13_ComputedSummaryFollowsThresholds ==
    (probe.fn = "generateOverallSummary" /\ probe.done) =>
        probe.output.recommendation =
            ClaimedRecommendation(probe.input.cvScore, probe.input.projScore)

(***************************** retrieval ************************************)
Finished(fn) == probe.fn = fn /\ probe.done

\* chunk i is ranked before chunk j: a higher score, or the same score and an
\* earlier place in the chunk list
RankedBefore(scores, i, j) ==
    scores[i] > scores[j] \/ (scores[i] = scores[j] /\ i < j)

\* C14: findRelevantChunks(chunks, query) returns at most 3 chunks of the
\* input: the highest-scoring ones among those scoring above 0, by descending
\* score, chunks of equal score in their original order; a chunk scoring 0 is
\* never returned and fewer than 3 are returned only when fewer than 3 score
\* above 0.
C14_TopThreeRanked ==
    Finished("findRelevantChunks") =>
        LET chunks == probe.input.chunks
            result == probe.output.chunks
            queryWords == split(toLowerCase(probe.input.query))
            scores == [i \in 1..Len(chunks) |->
                          calculateRelevanceScore(chunks[i], queryWords)]
            positive == {i \in 1..Len(chunks) : scores[i] > 0}
            k == Min(3, Cardinality(positive))
        IN  /\ Len(result) = k
            /\ \E idx \in [1..k -> positive] :
                  /\ \A j \in 1..k : result[j] = chunks[idx[j]]
                  /\ \A j \in 1..k : \A l \in (j + 1)..k :
                        RankedBefore(scores, idx[j], idx[l])
                  /\ \A i \in positive \ {idx[j] : j \in 1..k} :
                        \A j \in 1..k : RankedBefore(scores, idx[j], i)

\* four chunks score above 0 for the query "b": the best one, third in the
\* list, comes first, the two that tie follow in their order, the last is cut
C14_Witness ==
    /\ Finished("findRelevantChunks")
    /\ probe.input.query = <<"b">>
    /\ probe.input.chunks = << <<"A", "b">>, <<"b", " ", "a">>,
                               <<"a", "b", "a", "b", " ", "b">>, <<"A", "b">> >>
    /\ probe.output.chunks = << <<"a", "b", "a", "b", " ", "b">>, <<"A", "b">>,
                                <<"b", " ", "a">> >>

\* the pairs (query token, chunk token) in which one token contains the other
ContainingPairs(queryWords, chunkWords) ==
    {p \in (1..Len(queryWords)) \X (1..Len(chunkWords)) :
        \/ includes(chunkWords[p[2]], queryWords[p[1]])
        \/ includes(queryWords[p[1]], chunkWords[p[2]])}

\* 2 points for every containing pair whose query token is longer than 3
\* characters, 1 point for every other containing pair
ClaimedPairPoints(query, chunk) ==
    LET queryWords == split(toLowerCase(query))
        pairs == ContainingPairs(queryWords, split(toLowerCase(chunk)))
        long == {p \in pairs : Len(queryWords[p[1]]) > 3}
    IN  2 * Cardinality(long) + Cardinality(pairs \ long)

\* C15: calculateRelevanceScore adds, for every (queryToken, chunkToken) pair
\* of the whitespace-split, lower-cased query and chunk in which one token
\* contains the other, 2 points when the query token is longer than 3
\* characters and 1 point otherwise, and nothing for any other pair: apart
\* from the flat bonus of 3 the score is the sum of these points.
C15_PairPoints ==
    Finished("calculateRelevanceScore") =>
        probe.output \in
            {ClaimedPairPoints(probe.input.query, probe.input.chunk),
             ClaimedPairPoints(probe.input.query, probe.input.chunk) + 3}

\* the query "b Abab" against the chunk "abab b": four containing pairs, two
\* of them with the long query token
C15_Witness ==
    /\ Finished("calculateRelevanceScore")
    /\ probe.input.query = <<"b", " ", "A", "b", "a", "b">>
    /\ probe.input.chunk = <<"a", "b", "a", "b", " ", "b">>
    /\ probe.output = 9

\* C16: a chunk's score includes the flat bonus of 3 exactly when the query
\* string as a whole is a substring of the chunk (compared in lower case); a
\* chunk that contains some of the query's tokens but not the whole query
\* gets no bonus, and the bonus is added at most once.
C16_BonusForWholeQuery ==
    Finished("calculateRelevanceScore") =>
        probe.output - ClaimedPairPoints(probe.input.query, probe.input.chunk)
            = IF includes(toLowerCase(probe.input.chunk), toLowerCase(probe.input.query))
              THEN 3 ELSE 0
\* what does hold: the bonus is 3 exactly when some token of the query is a
\* substring of the chunk
C16_BonusForAnyToken ==
    Finished("calculateRelevanceScore") =>
        probe.output - ClaimedPairPoints(probe.input.query, probe.input.chunk)
            = IF \E word \in {split(toLowerCase(probe.input.query))[i] :
                                 i \in 1..Len(split(toLowerCase(probe.input.query)))} :
                     includes(toLowerCase(probe.input.chunk), word)
              THEN 3 ELSE 0

\* a step in which a retrieval function returns
RetrievalReturns ==
    /\ probe'.done /\ probe'.fn = probe.fn /\ probe'.input = probe.input
    /\ initialized' = initialized

MatchCount(docs, id, query) ==
    LET doc == FindDocument(docs, id)[1]
        queryWords == split(toLowerCase(query))
    IN  Cardinality({i \in 1..Len(doc.chunks) :
                        calculateRelevanceScore(doc.chunks[i], queryWords) > 0})

\* C18: for every query and every limit >= 0, searchDocuments(query, limit)
\* returns at most limit results, each a document with at least one matching
\* chunk, ordered by descending match count, the match count of a document
\* being the number of its chunks that score above 0 for the query.
C18_OrderedByMatchCount ==
    Finished("searchDocuments") =>
        LET results == probe.output
            count(j) == MatchCount(probe.saw, results[j].id, probe.input.query)
        IN  /\ Len(results) <= probe.input.limit
            /\ \A j \in 1..Len(results) : count(j) > 0
            /\ \A j \in 1..Len(results) : \A l \in (j + 1)..Len(results) :
                  count(j) >= count(l)
\* what does hold: the results are ordered by the number of chunks
\* findRelevantChunks returned, which is the match count capped at 3
C18_OrderedByCappedMatchCount ==
    Finished("searchDocuments") =>
        LET results == probe.output
            count(j) == Min(3, MatchCount(probe.saw, results[j].id, probe.input.query))
        IN  /\ Len(results) <= probe.input.limit
            /\ \A j \in 1..Len(results) : count(j) > 0 /\ results[j].totalRelevance = count(j)
            /\ \A j \in 1..Len(results) : \A l \in (j + 1)..Len(results) :
                  count(j) >= count(l)

(***************************** the endpoints' error cases *******************)
\* C19: POST /evaluate without an uploadId, or with one that is not in the
\* upload store, fails with 400 Invalid upload ID: no job record is created,
\* the job store and the upload store are left as they were and no pipeline
\* is started; a job is only ever created for a stored upload, with a 200.
C19_InvalidUploadCreatesNothing ==
    [][/\ (response' # response /\ response'.op = "evaluate" /\ response'.code = 400)
             => /\ evaluationJobs' = evaluationJobs
                /\ pipe' = pipe
                /\ uploadedFiles' = uploadedFiles
                /\ response'.fields = {"error", "message", "help"}
       /\ (evaluationJobs' # evaluationJobs /\ Len(evaluationJobs') > Len(evaluationJobs))
             => /\ Last(evaluationJobs').uploadId \in DOMAIN uploadedFiles
                /\ response'.op = "evaluate" /\ response'.code = 200
                /\ response'.id = Last(evaluationJobs').id
      ]_vars

\* a request with an unknown uploadId was refused while the pipeline of an
\* earlier job was under way
C19_Witness ==
    /\ response.op = "evaluate" /\ response.code = 400
    /\ Len(uploadedFiles) = 1 /\ Len(evaluationJobs) = 1 /\ Len(pipe) = 1
    /\ evaluationJobs[1].status = "processing"
    /\ pipe[1].stage = "match"

\* the fields of the view of a job in `status`
ViewFields(status) ==
    CASE status = "completed" -> {"result", "processedAt"}
      [] status = "failed" -> {"error", "message", "failedAt"}
      [] OTHER -> {"message", "createdAt"}

\* C20: GET /result/:id answers 404 for an id POST /evaluate never returned,
\* and for a known id the view of the job's current status (queued or
\* processing: message and createdAt; completed: result and completedAt;
\* failed: error, message and failedAt); it never changes the job store.
C20_ViewMatchesStatus ==
    [][(response' # response /\ response'.op = "result")
          => /\ evaluationJobs' = evaluationJobs
             /\ pipe' = pipe
             /\ LET id == response'.id
                    view == JobView(evaluationJobs, id)
                IN  IF id \notin DOMAIN evaluationJobs
                    THEN /\ response'.code = 404
                         /\ response'.fields = {"error", "message", "help"}
                    ELSE LET job == evaluationJobs[id]
                         IN  /\ response'.code = 200
                             /\ response'.status = job.status
                             /\ ViewFields(job.status) \subseteq response'.fields
                             /\ view.body.id = id /\ view.body.status = job.status
                             /\ job.status = "completed"
                                   => /\ view.body.result = job.result
                                      /\ view.body.processedAt = job.completedAt
                             /\ job.status = "failed"
                                   => /\ view.body.error = job.error
                                      /\ view.body.message = job.message
                                      /\ view.body.failedAt = job.failedAt
                             /\ job.status \in {"queued", "processing"}
                                   => /\ view.body.message = job.message
                                      /\ view.body.createdAt = job.createdAt
      ]_vars

\* a 404 was returned for an id never handed out, while job 1 has failed
C20_Witness ==
    /\ response.op = "result" /\ response.code = 404 /\ response.id = 2
    /\ Len(evaluationJobs) = 1 /\ evaluationJobs[1].status = "failed"

\* C21: a search request whose query is missing or empty fails with 400
\* "Query parameter q is required": searchDocuments is not called and the
\* answer carries no results.
C21_MissingQueryRefused ==
    (Finished("GET /vectordb/search")
     /\ (~probe.input.hasQuery \/ probe.input.q = <<>>)) =>
        /\ probe.output.code = 400
        /\ ~probe.output.searched
        /\ DOMAIN probe.output.body = {"error", "example"}
        /\ probe.saw = <<>>

\* a request with q= (the empty string) was refused after the documents
\* were loaded
C21_Witness ==
    /\ Finished("GET /vectordb/search")
    /\ probe.input.hasQuery /\ probe.input.q = <<>>
    /\ initialized /\ Len(documents) = 2
    /\ probe.output.code = 400

(***************************** concurrent jobs ******************************)
\* C22: with several jobs under way, a pipeline reads and writes only its own
\* record: whenever the record of a job changes, the pipeline of that job
\* took the step and no other record changed, a record always carries its own
\* id and the uploadId it was submitted with, and the result of a completed
\* job carries the job's evaluation id and upload id.
C22_PipelinesKeepToTheirRecord ==
    [][/\ \A id \in DOMAIN evaluationJobs :
             evaluationJobs'[id] # evaluationJobs[id]
             => /\ pipe'[id] # pipe[id]
                /\ evaluationJobs'[id].id = id
                /\ evaluationJobs'[id].uploadId = evaluationJobs[id].uploadId
                /\ evaluationJobs'[id].createdAt = evaluationJobs[id].createdAt
                /\ \A other \in DOMAIN evaluationJobs \ {id} :
                      /\ evaluationJobs'[other] = evaluationJobs[other]
                      /\ pipe'[other] = pipe[other]
       /\ \A id \in DOMAIN evaluationJobs' :
             evaluationJobs'[id].status = "completed"
             => /\ evaluationJobs'[id].result.metadata.evaluation_id = id
                /\ evaluationJobs'[id].result.metadata.upload_id
                      = evaluationJobs'[id].uploadId
      ]_vars

\* two jobs for different uploads, submitted in the other order, are both
\* completed; the first one finished while the second was under way
C22_Witness ==
    /\ Len(evaluationJobs) = 2
    /\ evaluationJobs[1].uploadId = 2 /\ evaluationJobs[2].uploadId = 1
    /\ evaluationJobs[1].status = "completed" /\ evaluationJobs[2].status = "completed"
    /\ evaluationJobs[2].createdAt < evaluationJobs[1].completedAt
    /\ evaluationJobs[1].completedAt < evaluationJobs[2].completedAt
    /\ evaluationJobs[1].result.metadata.upload_id = 2

\* the step the pipeline of job `id` is waiting for can be taken
CanProceed(id) ==
    /\ pipe[id].wait = "api" => ENABLED ApiSettled(id)
    /\ pipe[id].wait = "backoff" => ENABLED BackoffTimer(id)
    /\ (pipe[id].wait = "timer" /\ service = "heuristic") => ENABLED HeuristicTimer(id)
    /\ (pipe[id].wait = "timer" /\ service = "production") => ENABLED MockTimer(id)

\* C23: while a job waits in a backoff delay or for an external call, the
\* pipelines of the other jobs can take their steps and POST /evaluate and
\* GET /result/:id are served; and POST /evaluate answers while the pipeline
\* it started is still at its first stage.
C23_WaitsDoNotBlock ==
    [][/\ \A id \in DOMAIN pipe :
             pipe[id].wait \in {"api", "backoff", "timer"}
             => /\ ENABLED GetResult
                /\ ENABLED EvaluateInvalid
                /\ Len(evaluationJobs) < JobCap => ENABLED Evaluate
                /\ \A other \in DOMAIN pipe \ {id} : CanProceed(other)
       /\ Len(evaluationJobs') > Len(evaluationJobs)
             => /\ response'.op = "evaluate" /\ response'.code = 200
                /\ response'.status = "queued"
                /\ Last(evaluationJobs').status = "processing"
                /\ Last(pipe').stage = "structure" /\ Last(pipe').wait # "none"
      ]_vars

\* one job sleeps before its third call while the call of the other job is
\* under way
C23_Witness ==
    /\ Len(pipe) = 2
    /\ pipe[1].wait = "backoff" /\ pipe[1].delays = <<1000, 2000>>
    /\ pipe[2].wait = "api" /\ pipe[2].calls = 2

(***************************** the pipeline *********************************)
\* C24: within one job the stages run in the fixed order structure CV, score
\* CV match, CV feedback, score project, project feedback, overall summary,
\* on the texts extracted before; a stage starts only after the previous one
\* has returned its value, no stage runs twice, and once a stage has raised
\* (or the last one has returned) the pipeline never runs a stage again.
C24_StagesRunOnceInOrder ==
    [][\A id \in DOMAIN pipe' :
          LET f1 == pipe'[id]
              n == Len(f1.ran)
          IN  /\ n <= Len(Stages) /\ f1.ran = SubSeq(Stages, 1, n)
              /\ f1.stage \in {"done", Stages[n]}
              /\ \A k \in 1..(n - 1) : StageValue(f1, Stages[k]) # Undefined
              /\ \A k \in (n + 1)..Len(Stages) : StageValue(f1, Stages[k]) = Undefined
              /\ f1.stage # "done" => StageValue(f1, Stages[n]) = Undefined
              /\ id \in DOMAIN pipe =>
                    /\ Len(pipe[id].ran) <= n /\ n <= Len(pipe[id].ran) + 1
                    /\ pipe[id].stage = "done" => f1 = pipe[id]
                    /\ evaluationJobs[id].status \in {"completed", "failed"}
                          => /\ pipe[id].stage = "done"
                             /\ evaluationJobs'[id] = evaluationJobs[id]
              /\ evaluationJobs'[id].status = "completed" => f1.ran = Stages
      ]_vars

\* the first job failed in its second stage and ran no further; the second
\* job ran all six stages
C24_Witness ==
    /\ Len(pipe) = 2
    /\ evaluationJobs[1].status = "failed" /\ pipe[1].ran = <<"structure", "match">>
    /\ evaluationJobs[2].status = "completed" /\ pipe[2].ran = Stages

\* C25: when a stage raises an error that no fallback absorbs, the job goes
\* from processing to failed in that step; its error is the raised message
\* (the message of the missing document when the scoring stage found no job
\* requirements or no rubric), failedAt is the time of the failure, and the
\* record carries no result and nothing else of the stages that had returned.
C25_RaisedErrorFailsJob ==
    [][\A id \in DOMAIN evaluationJobs' :
          LET job1 == evaluationJobs'[id]
              job == evaluationJobs[id]
              stage == Last(pipe'[id].ran)
              jobRequirements == "job-requirements" \in documents
              rubric == "scoring-rubric" \in documents
          IN  (job1.status = "failed" /\ (id \in DOMAIN evaluationJobs => job.status # "failed"))
              => /\ id \in DOMAIN evaluationJobs /\ job.status = "processing"
                 /\ job1.error # NoError
                 /\ (stage = "match" /\ ~jobRequirements)
                       => job1.error = "Job requirements not loaded"
                 /\ (stage = "match" /\ jobRequirements /\ ~rubric)
                       => job1.error = "Scoring rubric not loaded"
                 /\ (stage = "project" /\ ~rubric)
                       => job1.error = "Scoring rubric not loaded"
                 /\ (stage = "project" /\ rubric /\ ~jobRequirements)
                       => job1.error = "Job requirements not loaded"
                 /\ job1.error \in DocumentErrors
                       => stage \in {"match", "project"} /\ ~(jobRequirements /\ rubric)
                 /\ job1.failedAt = now' /\ job1.failedAt # NoDate
                 /\ job1.result = Undefined /\ job1.completedAt = NoDate
                 /\ DOMAIN job1 = DOMAIN job
                 /\ \A field \in DOMAIN job \ {"status", "error", "message", "failedAt"} :
                       job1[field] = job[field]
                 /\ pipe'[id].stage = "done"
      ]_vars

\* a job whose CV had been structured failed in the scoring stage because the
\* job requirements were not loaded
C25_Witness ==
    \E id \in DOMAIN evaluationJobs :
        /\ evaluationJobs[id].status = "failed"
        /\ evaluationJobs[id].error = "Job requirements not loaded"
        /\ evaluationJobs[id].failedAt # NoDate
        /\ evaluationJobs[id].result = Undefined
        /\ StageValue(pipe[id], "structure") # Undefined
        /\ Last(pipe[id].ran) = "match"

TypeErrors ==
    {"Cannot read properties of undefined (reading 'join')",
     "Cannot convert undefined or null to object",
     "Cannot read properties of undefined (reading 'correctness')"}

\* C26: a file that cannot be read never fails the job: the pipeline's text
\* for a plain-text upload is the file's content or, when the read failed,
\* the string describing the error; the job submitted with it is processing
\* in its first stage, and if it fails later it is for an error of a stage.
C26_UnreadableFileNeverFails ==
    \A id \in DOMAIN pipe :
        LET f == pipe[id]
            job == evaluationJobs[id]
            uploadData == uploadedFiles[job.uploadId]
            Extracted(fileInfo) == IF fileInfo.mimetype = "text/plain"
                                   THEN {fileInfo.content, ExtractErrorText}
                                   ELSE {MockContent}
        IN  /\ f.cvText \in Extracted(uploadData.cv)
            /\ f.projectText \in Extracted(uploadData.project)
            /\ ExtractErrorText \in {f.cvText, f.projectText}
                  => /\ f.ran # <<>> /\ job.startedAt # NoDate
                     /\ job.status \in {"processing", "completed", "failed"}
                     /\ job.status = "failed" => job.error \in DocumentErrors \cup TypeErrors
                     /\ (job.status = "processing" /\ f.stage # "done") => f.wait # "none"

\* a job neither file of which could be read ran all six stages and completed
C26_Witness ==
    \E id \in DOMAIN pipe :
        /\ pipe[id].cvText = ExtractErrorText
        /\ pipe[id].projectText = ExtractErrorText
        /\ pipe[id].ran = Stages
        /\ evaluationJobs[id].status = "completed"

(************************** extractBulletPoints ****************************)
IsBulletLine(line) == startsWith(trim(line), "-") \/ startsWith(trim(line), "*")
\* the bullet points of the section `sectionName` of `lines` when the lines
\* for which Ends holds end the section once a bullet point was found
BulletPointsUntil(lines, sectionName, Ends(_)) ==
    LET found == {i \in 1..Len(lines) : includes(lines[i], sectionName)}
        start == CHOOSE i \in found : \A j \in found : i <= j
        bullets == {i \in (start + 1)..Len(lines) : IsBulletLine(lines[i])}
        ends == {i \in (start + 1)..Len(lines) :
                    /\ Ends(lines[i]) /\ ~IsBulletLine(lines[i])
                    /\ \E b \in bullets : b < i}
        kept == [i \in 1..Len(lines) |->
                    i \in bullets /\ \A e \in ends : i < e]
        Stripped(i) == trim(Tail(trim(lines[i])))
        indices == SelectSeq([i \in 1..Len(lines) |-> i], LAMBDA i : kept[i])
    IN  IF found = {} THEN <<>>
        ELSE [k \in 1..Len(indices) |-> Stripped(indices[k])]

\* C27: extractBulletPoints returns the empty list when no line contains the
\* section name; otherwise the bullet lines after the first line containing
\* it, in order and without the marker, up to a non-bullet line that is not
\* indented: blank lines and indented lines of text do not end the section.
C27_SectionEndsAtUnindentedText ==
    Finished("extractBulletPoints") =>
        probe.output = BulletPointsUntil(probe.input.lines, probe.input.sectionName,
                                         LAMBDA line : line # <<>> /\ ~IsSpace(line[1]))
\* what does hold: every line of text after the first bullet point ends the
\* section, indented or not; only blank lines do not
C27_SectionEndsAtAnyText ==
    Finished("extractBulletPoints") =>
        probe.output = BulletPointsUntil(probe.input.lines, probe.input.sectionName,
                                         LAMBDA line : trim(line) # <<>>)

\* C28: no state a request can observe holds a queued job, and no answer of
\* GET /result/:id reports one: the handler of POST /evaluate creates the
\* record and moves it to processing in one step, before it answers; its
\* answer says queued while the record it answers for is processing.
C28_QueuedIsNeverObserved ==
    [][/\ \A id \in DOMAIN evaluationJobs' : evaluationJobs'[id].status # "queued"
       /\ response'.op = "result" => response'.status # "queued"
       /\ Len(evaluationJobs') > Len(evaluationJobs)
             => /\ Len(evaluationJobs') = Len(evaluationJobs) + 1
                /\ response'.op = "evaluate" /\ response'.code = 200
                /\ response'.id = Len(evaluationJobs')
                /\ response'.status = "queued"
                /\ evaluationJobs'[response'.id].status = "processing"
                /\ evaluationJobs'[response'.id].startedAt
                      = evaluationJobs'[response'.id].createdAt
      ]_vars

\* the answer to a submission says queued, the record is processing
C28_Witness ==
    /\ response.op = "evaluate" /\ response.code = 200 /\ response.status = "queued"
    /\ response.id \in DOMAIN evaluationJobs
    /\ evaluationJobs[response.id].status = "processing"
    /\ pipe[response.id].ran = <<"structure">>

\* C29: an API answer with empty content is a failed attempt like an error:
\* callOpenAI sleeps and calls again while the attempt is below maxRetries,
\* and never returns it to the stage; an answer with content that is not
\* JSON is returned at once, and the stage that cannot parse it takes its
\* fallback value in the same step, with no further call and no sleep.
C29_EmptyRetriedUnparseableNot ==
    [][/\ \A id \in DOMAIN pipe :
             LET f == pipe[id]
                 f1 == pipe'[id]
                 ended == f1.lastInvoke # f.lastInvoke \/ f1.stage # f.stage
             IN  (f.wait = "api" /\ f1 # f)
                 => /\ f1.wait = "backoff"
                       => /\ f1.lastReply \in {"error", "empty"}
                          /\ f.calls < maxRetries /\ f1.calls = f.calls
                          /\ Len(f1.delays) = Len(f.delays) + 1
                          /\ f1.stage = f.stage /\ ~ended
                    /\ (ended /\ f1.lastInvoke.outcome = "exhausted")
                       => /\ f1.lastInvoke.reply.kind \in {"error", "empty"}
                          /\ f.calls = maxRetries
                    /\ (ended /\ f1.lastInvoke.outcome = "content")
                       => /\ f1.lastInvoke.reply.kind = "content"
                          /\ (f.stage \in JsonStages
                              /\ f1.lastInvoke.returned.json = "invalid")
                             => /\ StageValue(f1, f.stage) = Fallback(f.stage, f1)
                                /\ StageValue(f1, f.stage).src = "fallback"
                                /\ f1.stage # f.stage
                                /\ evaluationJobs'[id].status = "failed"
                                      => Last(f1.ran) # f.stage
                    /\ f1.wait = "backoff" \/ ended
       /\ \A other \in DOMAIN pipe :
             (pipe[other].wait = "backoff" /\ pipe'[other] # pipe[other])
             => /\ pipe'[other].wait = "api"
                /\ pipe'[other].calls = pipe[other].calls + 1
                /\ pipe'[other].stage = pipe[other].stage
      ]_vars

\* the first call of the scoring stage came back empty and is being retried,
\* after the structuring stage took its fallback for an unparseable answer
\* to its only call
C29_Witness ==
    \E id \in DOMAIN pipe :
        /\ pipe[id].stage = "match" /\ pipe[id].wait = "backoff"
        /\ pipe[id].lastReply = "empty" /\ pipe[id].calls = 1
        /\ pipe[id].lastInvoke.stage = "structure"
        /\ pipe[id].lastInvoke.outcome = "content"
        /\ pipe[id].lastInvoke.returned.json = "invalid"
        /\ pipe[id].cvStructured.src = "fallback"

(************************** empty query tokens ******************************)
\* some token of the query among `tokens` and some token of the chunk are in
\* a substring relation
Related(tokens, chunk) ==
    \E queryWord \in tokens :
        \E j \in 1..Len(split(toLowerCase(chunk))) :
            LET chunkWord == split(toLowerCase(chunk))[j]
            IN  includes(chunkWord, queryWord) \/ includes(queryWord, chunkWord)
Tokens(query) ==
    {split(toLowerCase(query))[i] : i \in 1..Len(split(toLowerCase(query)))}

\* C30: findRelevantChunks returns a chunk only if some non-empty token of
\* the query and some token of the chunk are in a substring relation;
\* whitespace at the start or the end of the query, or a query of whitespace
\* only, does not make a chunk unrelated to the query's words relevant.
C30_OnlyRelatedChunksReturned ==
    Finished("findRelevantChunks") =>
        \A i \in 1..Len(probe.output.chunks) :
            Related(Tokens(probe.input.query) \ {<<>>}, probe.output.chunks[i])
\* what does hold: the same with the empty tokens that split leaves before a
\* leading and after a trailing run of whitespace counted as tokens
C30_ChunksRelatedToSomeToken ==
    Finished("findRelevantChunks") =>
        \A i \in 1..Len(probe.output.chunks) :
            Related(Tokens(probe.input.query), probe.output.chunks[i])
====
